---- MODULE Spec2Model ----
(***************************************************************************)
(* A model of nxquery: the change scheduler of NXQueryPlugin, the watcher  *)
(* filter of FileWatcher, the seeder and writer of FileSystemWriter, the   *)
(* regeneration pass (syncProject) and the alias builder of                *)
(* FileSystemReader.                                                       *)
(***************************************************************************)
EXTENDS Integers, Sequences, FiniteSets, TLC

(***************************************************************************)
(* Bounds                                                                  *)
(***************************************************************************)
\* user changes to the tree in one behaviour
MaxChanges == 2
\* executions of syncProject in one behaviour
MaxPasses == 3
\* segments of a path given to the watcher or the seeder
MaxDepth == 4
\* characters of an operation file's content
MaxContentLen == 2
\* calls of maybeSeedOperationFile on one file
MaxSeeds == 2
\* characters of a namespace or file base name given to buildAlias
MaxNameLen == 2
\* successive calls of syncProject on one tree
MaxRuns == 2
\* operation files of a tree that is rendered under an order of enumeration
MaxFiles == 2
\* passes that end in a storage fault in one behaviour
MaxFailures == 1
\* changes the user makes to the tree the watcher feeds back
MaxEdits == 2
\* notifications the watcher delivers a second time
MaxDups == 1
\* top-level declarations of a parsed operation file
MaxDecls == 2
\* FileWatcher instances the plugin constructs
MaxWatchers == 3
\* syntax errors the parser reports for one file
MaxErrors == 2

(***************************************************************************)
(* The scheduler model: one namespace, one operation file under queries/.  *)
(* The file's content is abstracted to what a pass extracts from it.       *)
(***************************************************************************)
\* "absent": no file; "empty": whitespace only (no descriptor);
\* "q0": a factory without parameter; "q1": a factory with a parameter;
\* "tpl": the seeded template (createQueryOptions with parameter rawArgs)
Content == {"absent", "empty", "q0", "q1", "tpl"}

PassIds == 1..MaxPasses

\* the five watcher events and the host's hot-update callback
FileKinds == {"add", "change", "unlink"}
DirKinds == {"addDir", "unlinkDir"}

VARIABLES
  opFile,       \* content of <root>/<ns>/queries/<name>.ts
  nsKeys,       \* content of <root>/<ns>/queryKeys.ts
  rootKeys,     \* content of <root>/keys.ts
  manifest,     \* content of <root>/index.ts
  attached,     \* attachDevServer has registered the watcher handlers
  syncPending,  \* NXQueryPlugin.syncPending
  chainLinks,   \* links of syncChain whose runSync has not begun
  chainRunning, \* the runSync of the head link is executing
  chainResult,  \* settlement of the last settled link of syncChain
  passes,       \* executions of syncProject
  started,      \* number of executions of syncProject begun
  inflight,     \* notifications the host has not yet delivered
  adds,         \* handleFileAdded calls suspended at an await
  dirsPending,  \* handleDirectoryAdded calls suspended at their await
  errorsLogged, \* calls of reportSyncError
  epoch,        \* number of user changes made to the tree
  doneEpoch,    \* the latest epoch read by a pass that completed
  burstCalls,   \* scheduleSync calls since the last runSync began
  lastReload    \* the last full-reload sent: had a pass that read the change completed?

fsVars == <<opFile, nsKeys, rootKeys, manifest>>
chainVars == <<syncPending, chainLinks, chainRunning, chainResult>>
ghostVars == <<errorsLogged, doneEpoch, burstCalls, lastReload>>
schedVars == <<fsVars, attached, chainVars, passes, started,
               inflight, adds, dirsPending, epoch, ghostVars>>

VARIABLES
  watch,        \* one notification and what its handler did (the watcher filter)
  seed,         \* one operation file and the calls of maybeSeedOperationFile on it
  alias,        \* two operation files and the aliases buildAlias gives them
  sync          \* a tree, its artifacts on disk and successive calls of syncProject

VARIABLES
  render,       \* a tree, an order of enumeration and what is rendered from them
  skel,         \* a directory path and what ensureNamespaceSkeleton made of it
  feed          \* a namespace directory, its notifications and the passes they start

VARIABLES
  notify,       \* one notification received while Idle and what its handler reached
  wr,           \* one file, its directory and a call of writeFileIfChanged
  parse,        \* one operation file's source and what parseOperationFile made of it
  listen,       \* the plugin's watchers, their listeners and the calls they received
  tmpl          \* one seeded operation file and the artifacts of the pass after it

lastVars == <<notify, wr, parse, listen, tmpl>>
moreVars == <<render, skel, feed, lastVars>>
vars == <<schedVars, watch, seed, alias, sync, moreVars>>

(***************************************************************************)
(* Generated artifacts, as the renderer produces them from a snapshot.     *)
(***************************************************************************)
Absent == <<"absent">>
\* the fallback ensureFile writes: 'export const queryKeys = {}\n'
Stub == <<"stub">>
Table(rows) == <<"table", rows>>

\* parseOperationFile: a file yields a descriptor iff it exports a factory
HasDescriptor(c) == c \in {"q0", "q1", "tpl"}
\* extractParamName of the first parameter (queries only)
ParamName(c) == CASE c = "q1" -> "args" [] c = "tpl" -> "rawArgs" [] OTHER -> "none"
\* buildAlias: the prefix 'create' only for the canonical factory names
AliasOf(c) == IF c = "tpl" THEN "createNsOpQueryOptions" ELSE "NsOpQueryOptions"

\* renderNamespaceQueryKeys, of the snapshot of the one namespace
SnapNamespaceKeys(snap) ==
  Table(IF HasDescriptor(snap) THEN <<[name |-> "op", param |-> ParamName(snap)]>> ELSE <<>>)
\* renderRootQueryKeys: one line per namespace
SnapRootKeys == Table(<<[name |-> "ns"]>>)
\* renderNXQueryFile, of the snapshot
SnapManifest(snap) ==
  Table(IF HasDescriptor(snap) THEN <<[name |-> "op", alias |-> AliasOf(snap)]>> ELSE <<>>)

\* ensureFile: write the fallback only when the file does not exist
ensureFile(existing) == IF existing = Absent THEN Stub ELSE existing

(***************************************************************************)
(* Promises: the settlement of p.catch(h) and p.then(f), for handlers that *)
(* return normally.                                                        *)
(***************************************************************************)
Catch(p) == IF p = "rejected" THEN "fulfilled" ELSE p
Then(p, r) == IF p = "rejected" THEN "rejected" ELSE r

\* runSync (try / catch): the settlement of runSync's promise
runSyncResult(passResult) == Catch(passResult)
\* scheduleSync: syncChain.catch(report).then(runSync).catch(swallow)
linkResult(prev, run) == Catch(Then(Catch(prev), run))

(***************************************************************************)
(* Executions of syncProject                                               *)
(***************************************************************************)
NoPass == [pc |-> "unused", via |-> "none", awaited |-> FALSE, snap |-> "absent", snapEpoch |-> 0]
ActivePcs == {"initEnsure", "ensure", "read", "writeNs", "writeRoot", "writeIndex"}
Active(p) == passes[p].pc \in ActivePcs
ChainPasses == {p \in PassIds : passes[p].via = "runSync"}
NewPass(via, awaited) ==
  [pc |-> IF via = "initialize" THEN "initEnsure" ELSE "ensure",
   via |-> via, awaited |-> awaited, snap |-> "absent", snapEpoch |-> 0]
Closed(p, pc) == [passes[p] EXCEPT !.pc = pc, !.snap = "absent", !.snapEpoch = 0]

Max(a, b) == IF a >= b THEN a ELSE b

InitSched ==
  /\ opFile \in {"absent", "q0"}
  /\ nsKeys = Absent /\ rootKeys = Absent /\ manifest = Absent
  /\ attached = FALSE
  /\ syncPending = FALSE /\ chainLinks = 0 /\ chainRunning = FALSE
  /\ chainResult = "fulfilled"
  /\ passes = [p \in PassIds |-> NoPass]
  /\ started = 0
  /\ inflight = {}
  /\ adds = [seedRead |-> 0, seedWrite |-> 0, resume |-> 0]
  /\ dirsPending = 0
  /\ errorsLogged = 0 /\ epoch = 0 /\ doneEpoch = 0
  /\ burstCalls = 0
  /\ lastReload = "none"

(***************************************************************************)
(* scheduleSync (FileSystemReader.ts 390-402)                              *)
(***************************************************************************)
\* scheduleSync without its early return on syncPending
scheduleSyncNoGuard ==
  /\ burstCalls' = IF chainRunning THEN burstCalls ELSE burstCalls + 1
  /\ syncPending' = TRUE
  /\ chainLinks' = chainLinks + 1
  /\ UNCHANGED <<chainRunning, chainResult>>

scheduleSync ==
  /\ burstCalls' = IF chainRunning THEN burstCalls ELSE burstCalls + 1
  /\ IF syncPending
       THEN UNCHANGED <<syncPending, chainLinks>>
       ELSE /\ syncPending' = TRUE
            /\ chainLinks' = chainLinks + 1
  /\ UNCHANGED <<chainRunning, chainResult>>

\* runSync calling syncProject without await: its finally runs, and its
\* link settles, while the pass is still in progress
runSyncBeginNoAwait ==
  /\ chainLinks > 0 /\ ~chainRunning
  /\ started < MaxPasses
  /\ chainLinks' = chainLinks - 1
  /\ chainRunning' = FALSE
  /\ syncPending' = FALSE
  /\ started' = started + 1
  /\ passes' = [passes EXCEPT ![started + 1] = NewPass("runSync", FALSE)]
  /\ burstCalls' = 0
  /\ UNCHANGED <<fsVars, attached, chainResult, inflight,
                 adds, dirsPending, epoch, errorsLogged, doneEpoch, lastReload>>

\* runSync begins: the head link runs once its predecessor has settled
runSyncBegin ==
  /\ chainLinks > 0 /\ ~chainRunning
  /\ started < MaxPasses
  /\ chainLinks' = chainLinks - 1
  /\ chainRunning' = TRUE
  /\ started' = started + 1
  /\ passes' = [passes EXCEPT ![started + 1] = NewPass("runSync", TRUE)]
  /\ burstCalls' = 0
  /\ UNCHANGED <<fsVars, attached, syncPending, chainResult, inflight,
                 adds, dirsPending, epoch, errorsLogged, doneEpoch, lastReload>>

\* runSync resetting syncPending after the await instead of in finally
runSyncEndNoFinally(passResult) ==
  /\ errorsLogged' = IF passResult = "rejected" THEN errorsLogged + 1 ELSE errorsLogged
  /\ syncPending' = IF passResult = "rejected" THEN syncPending ELSE FALSE
  /\ chainRunning' = FALSE
  /\ chainResult' = linkResult(chainResult, runSyncResult(passResult))
  /\ UNCHANGED chainLinks

\* runSync's catch and finally, and the settlement of its link
runSyncEnd(passResult) ==
  /\ errorsLogged' = IF passResult = "rejected" THEN errorsLogged + 1 ELSE errorsLogged
  /\ syncPending' = FALSE
  /\ chainRunning' = FALSE
  /\ chainResult' = linkResult(chainResult, runSyncResult(passResult))
  /\ UNCHANGED chainLinks

\* the promise of syncProject settles: whoever awaits it continues
settle(p, passResult) ==
  IF passes[p].awaited
    THEN runSyncEnd(passResult)
    ELSE UNCHANGED <<chainVars, errorsLogged>>

(***************************************************************************)
(* syncProject (FileSystemReader.ts 350-369), one awaited call per step    *)
(***************************************************************************)
\* an ensureBaseStructure that fills an empty operation file as well
ensureBaseStructureSeeding ==
  /\ manifest' = ensureFile(manifest)
  /\ rootKeys' = ensureFile(rootKeys)
  /\ nsKeys' = ensureFile(nsKeys)
  /\ opFile' = IF opFile = "empty" THEN "tpl" ELSE opFile

\* ensureBaseStructure: the root files and the namespace skeleton exist
ensureBaseStructure ==
  /\ manifest' = ensureFile(manifest)
  /\ rootKeys' = ensureFile(rootKeys)
  /\ nsKeys' = ensureFile(nsKeys)
  /\ UNCHANGED opFile

syncProjectStep(p) ==
  /\ Active(p)
  /\ LET pc == passes[p].pc IN
     CASE pc = "initEnsure" ->
            /\ ensureBaseStructure
            /\ passes' = [passes EXCEPT ![p].pc = "ensure"]
            /\ UNCHANGED <<chainVars, errorsLogged, doneEpoch>>
       [] pc = "ensure" ->
            /\ ensureBaseStructure
            /\ passes' = [passes EXCEPT ![p].pc = "read"]
            /\ UNCHANGED <<chainVars, errorsLogged, doneEpoch>>
       [] pc = "read" ->
            /\ passes' = [passes EXCEPT ![p].pc = "writeNs", ![p].snap = opFile,
                                        ![p].snapEpoch = epoch]
            /\ UNCHANGED <<fsVars, chainVars, errorsLogged, doneEpoch>>
       [] pc = "writeNs" ->
            /\ nsKeys' = SnapNamespaceKeys(passes[p].snap)
            /\ passes' = [passes EXCEPT ![p].pc = "writeRoot"]
            /\ UNCHANGED <<opFile, rootKeys, manifest, chainVars, errorsLogged, doneEpoch>>
       [] pc = "writeRoot" ->
            /\ rootKeys' = SnapRootKeys
            /\ passes' = [passes EXCEPT ![p].pc = "writeIndex"]
            /\ UNCHANGED <<opFile, nsKeys, manifest, chainVars, errorsLogged, doneEpoch>>
       [] pc = "writeIndex" ->
            /\ manifest' = SnapManifest(passes[p].snap)
            /\ passes' = [passes EXCEPT ![p] = Closed(p, "done")]
            /\ doneEpoch' = Max(doneEpoch, passes[p].snapEpoch)
            /\ settle(p, "fulfilled")
            /\ UNCHANGED <<opFile, nsKeys, rootKeys>>
  /\ UNCHANGED <<attached, started, inflight, adds, dirsPending, epoch,
                 burstCalls, lastReload>>

\* a file-system call of the pass throws (a storage fault)
syncProjectThrows(p) ==
  /\ Active(p)
  /\ Cardinality({q \in PassIds : passes[q].pc = "failed"}) < MaxFailures
  /\ passes' = [passes EXCEPT ![p] = Closed(p, "failed")]
  /\ settle(p, "rejected")
  /\ UNCHANGED <<fsVars, attached, started, inflight, adds, dirsPending,
                 epoch, doneEpoch, burstCalls, lastReload>>

(***************************************************************************)
(* The host: configureServer (plugin.ts 12-14)                             *)
(***************************************************************************)
\* initialize: ensureBaseStructure, then syncProject, outside syncChain
initialize ==
  /\ started < MaxPasses
  /\ started' = started + 1
  /\ passes' = [passes EXCEPT ![started + 1] = NewPass("initialize", FALSE)]

attachDevServer ==
  /\ ~attached
  /\ attached' = TRUE
  /\ initialize
  /\ UNCHANGED <<fsVars, chainVars, inflight, adds, dirsPending, epoch,
                 ghostVars>>

(***************************************************************************)
(* The user edits the tree; the host's watcher reports each change later.  *)
(***************************************************************************)
Event(kind) == [kind |-> kind, stamp |-> epoch + 1]

userCreates(c) ==
  /\ attached /\ epoch < MaxChanges
  /\ opFile = "absent"
  /\ opFile' = c
  /\ epoch' = epoch + 1
  /\ inflight' = inflight \cup {Event("add")}
  /\ UNCHANGED <<nsKeys, rootKeys, manifest, attached, chainVars, passes,
                 started, adds, dirsPending, ghostVars>>

\* a saved edit reaches the plugin twice: as the watcher's change event and
\* as the host's handleHotUpdate call
userEdits(c) ==
  /\ attached /\ epoch < MaxChanges
  /\ opFile # "absent" /\ opFile # c
  /\ opFile' = c
  /\ epoch' = epoch + 1
  /\ inflight' = inflight \cup {Event("change"), Event("hmr")}
  /\ UNCHANGED <<nsKeys, rootKeys, manifest, attached, chainVars, passes,
                 started, adds, dirsPending, ghostVars>>

userUnlinks ==
  /\ attached /\ epoch < MaxChanges
  /\ opFile # "absent"
  /\ opFile' = "absent"
  /\ epoch' = epoch + 1
  /\ inflight' = inflight \cup {Event("unlink")}
  /\ UNCHANGED <<nsKeys, rootKeys, manifest, attached, chainVars, passes,
                 started, adds, dirsPending, ghostVars>>

\* a directory below queries/ appears or disappears: no descriptor changes
userDirectory(kind) ==
  /\ attached /\ epoch < MaxChanges
  /\ epoch' = epoch + 1
  /\ inflight' = inflight \cup {Event(kind)}
  /\ UNCHANGED <<fsVars, attached, chainVars, passes, started, adds,
                 dirsPending, ghostVars>>

(***************************************************************************)
(* The watcher handlers (FileWatcher.attachDevServer) and the callbacks    *)
(* NXQueryPlugin.attachDevServer gives them, for a path that qualifies.    *)
(***************************************************************************)
\* handleChange / handleUnlink: emit, then onChange / onUnlink
handleChange(e) ==
  /\ e \in inflight /\ e.kind \in {"change", "unlink"}
  /\ inflight' = inflight \ {e}
  /\ scheduleSync
  /\ UNCHANGED <<fsVars, attached, passes, started, adds, dirsPending, epoch,
                 errorsLogged, doneEpoch, lastReload>>

\* handleUnlinkDir: onUnlinkDir
handleUnlinkDir(e) ==
  /\ e \in inflight /\ e.kind = "unlinkDir"
  /\ inflight' = inflight \ {e}
  /\ scheduleSync
  /\ UNCHANGED <<fsVars, attached, passes, started, adds, dirsPending, epoch,
                 errorsLogged, doneEpoch, lastReload>>

\* handleAdd: handleFileAdded runs up to the readFile of maybeSeedOperationFile
handleAdd(e) ==
  /\ e \in inflight /\ e.kind = "add"
  /\ inflight' = inflight \ {e}
  /\ adds' = [adds EXCEPT !.seedRead = @ + 1]
  /\ UNCHANGED <<fsVars, attached, chainVars, passes, started, dirsPending,
                 epoch, ghostVars>>

\* maybeSeedOperationFile: readFile returns; a missing or non-blank file ends it
seedRead ==
  /\ adds.seedRead > 0
  /\ adds' = IF opFile = "empty"
               THEN [adds EXCEPT !.seedRead = @ - 1, !.seedWrite = @ + 1]
               ELSE [adds EXCEPT !.seedRead = @ - 1, !.resume = @ + 1]
  /\ UNCHANGED <<fsVars, attached, chainVars, passes, started, inflight,
                 dirsPending, epoch, ghostVars>>

\* maybeSeedOperationFile: writeFile of the template; the watcher reports it
seedWrite ==
  /\ adds.seedWrite > 0
  /\ adds' = [adds EXCEPT !.seedWrite = @ - 1, !.resume = @ + 1]
  /\ opFile' = "tpl"
  /\ epoch' = epoch + 1
  /\ inflight' = inflight \cup {Event("change")}
  /\ UNCHANGED <<nsKeys, rootKeys, manifest, attached, chainVars, passes,
                 started, dirsPending, ghostVars>>

\* handleFileAdded after its await: emit('add'), scheduleSync
handleFileAdded ==
  /\ adds.resume > 0
  /\ adds' = [adds EXCEPT !.resume = @ - 1]
  /\ scheduleSync
  /\ UNCHANGED <<fsVars, attached, passes, started, inflight, dirsPending,
                 epoch, errorsLogged, doneEpoch, lastReload>>

\* handleAddDir: handleDirectoryAdded runs up to its await
handleAddDir(e) ==
  /\ e \in inflight /\ e.kind = "addDir"
  /\ inflight' = inflight \ {e}
  /\ dirsPending' = dirsPending + 1
  /\ UNCHANGED <<fsVars, attached, chainVars, passes, started, adds, epoch,
                 ghostVars>>

\* handleDirectoryAdded after its await (ensureNamespaceSkeleton returns at
\* once for a directory that is no immediate child of the root)
handleDirectoryAdded ==
  /\ dirsPending > 0
  /\ dirsPending' = dirsPending - 1
  /\ scheduleSync
  /\ UNCHANGED <<fsVars, attached, passes, started, inflight, adds, epoch,
                 errorsLogged, doneEpoch, lastReload>>

\* handleHotUpdate: emit('change'), scheduleSync, ws.send(full-reload)
handleHotUpdate(e) ==
  /\ e \in inflight /\ e.kind = "hmr"
  /\ inflight' = inflight \ {e}
  /\ scheduleSync
  /\ lastReload' = IF doneEpoch >= e.stamp THEN "regenerated" ELSE "early"
  /\ UNCHANGED <<fsVars, attached, passes, started, adds, dirsPending, epoch,
                 errorsLogged, doneEpoch>>

\* what an action of the scheduler model leaves alone
SchedFrame == UNCHANGED <<watch, seed, alias, sync, moreVars>>

Next ==
  \/ attachDevServer /\ SchedFrame
  \/ \E c \in {"empty", "q0"} : userCreates(c) /\ SchedFrame
  \/ \E c \in {"q0", "q1"} : userEdits(c) /\ SchedFrame
  \/ userUnlinks /\ SchedFrame
  \/ \E k \in DirKinds : userDirectory(k) /\ SchedFrame
  \/ \E e \in inflight : handleChange(e) /\ SchedFrame
  \/ \E e \in inflight : handleUnlinkDir(e) /\ SchedFrame
  \/ \E e \in inflight : handleAdd(e) /\ SchedFrame
  \/ seedRead /\ SchedFrame
  \/ seedWrite /\ SchedFrame
  \/ handleFileAdded /\ SchedFrame
  \/ \E e \in inflight : handleAddDir(e) /\ SchedFrame
  \/ handleDirectoryAdded /\ SchedFrame
  \/ \E e \in inflight : handleHotUpdate(e) /\ SchedFrame
  \/ runSyncBegin /\ SchedFrame
  \/ \E p \in PassIds : syncProjectStep(p) /\ SchedFrame
  \/ \E p \in PassIds : syncProjectThrows(p) /\ SchedFrame

\* the scheduler state before attachDevServer, with no operation file
SchedOff == InitSched /\ opFile = "absent"
\* no notification to filter, no file to seed
WatchOff == [kind |-> "none", path |-> <<>>, done |-> TRUE, did |-> {}]
SeedOff == [path |-> <<>>, exists |-> FALSE, content |-> <<>>, calls |-> 0,
            prev |-> <<>>]

AliasOff == [a |-> <<>>, b |-> <<>>, done |-> TRUE, aliasA |-> <<>>, aliasB |-> <<>>]
SyncOff == [pc |-> "off"]
RenderOff == [pc |-> "off"]
SkelOff == [pc |-> "off"]
FeedOff == [pc |-> "off"]
NotifyOff == [pc |-> "off"]
WrOff == [pc |-> "off"]
ParseOff == [pc |-> "off"]
ListenOff == [pc |-> "off"]
TmplOff == [pc |-> "off"]
LastOff ==
  /\ notify = NotifyOff /\ wr = WrOff /\ parse = ParseOff /\ listen = ListenOff
  /\ tmpl = TmplOff
MoreOff == render = RenderOff /\ skel = SkelOff /\ feed = FeedOff /\ LastOff

Init ==
  /\ InitSched
  /\ watch = WatchOff /\ seed = SeedOff /\ alias = AliasOff /\ sync = SyncOff /\ MoreOff
Spec == Init /\ [][Next]_vars

(***************************************************************************)
(* The scheduler's states (spec 4.6)                                       *)
(***************************************************************************)
ChainActive == {p \in ChainPasses : Active(p)}
Idle == ~syncPending
PassScheduled == syncPending /\ chainLinks > 0
PassRunning == syncPending /\ ChainActive # {}

\* C1: at most one execution of syncProject begun by runSync is in progress
\* at any time, whenever the scheduleSync calls arrive.
C1_NoOverlap == Cardinality(ChainActive) <= 1

\* a second chain pass is in progress after an earlier one has completed
C1_Witness ==
  \E p, q \in ChainPasses :
    /\ passes[p].pc = "done"
    /\ passes[q].pc \in {"writeNs", "writeRoot", "writeIndex"}

\* C2: the scheduleSync calls made while the scheduler is Idle or its pass
\* has not begun enqueue exactly one link together, and when runSync begins
\* it starts exactly one pass for all of them and leaves nothing queued.
C2_Coalescing ==
  /\ [](chainLinks = IF burstCalls >= 1 THEN 1 ELSE 0)
  /\ [][(burstCalls >= 1 /\ burstCalls' = 0) =>
          (chainLinks' = 0 /\ started' = started + 1 /\ ChainActive' # {})]_vars

\* three calls wait for one queued pass
C2_Witness == burstCalls >= 3 /\ chainLinks = 1 /\ PassScheduled

\* C3: once the scheduler is Idle, nothing is in flight and no pass failed,
\* a pass that read the tree after the last change has completed.
Quiescent ==
  /\ attached /\ Idle
  /\ inflight = {} /\ dirsPending = 0
  /\ adds.seedRead = 0 /\ adds.seedWrite = 0 /\ adds.resume = 0
  /\ \A p \in PassIds : ~Active(p) /\ passes[p].pc # "failed"
C3_NoChangeLost == Quiescent => doneEpoch = epoch

\* C4: a pass that throws is logged once, never rejects syncChain, leaves
\* syncPending false once runSync has ended, and leaves the chain free to run
\* the next link.
C4_FailureIsolation ==
  /\ chainResult = "fulfilled"
  /\ errorsLogged = Cardinality({p \in ChainPasses : passes[p].pc = "failed"})
  /\ syncPending => (chainLinks > 0 \/ ChainActive # {})
  /\ chainRunning => ChainActive # {}

\* after a chain pass failed, a later chain pass ran to completion
C4_Witness ==
  \E p, q \in ChainPasses :
    p < q /\ passes[p].pc = "failed" /\ passes[q].pc = "done" /\ Idle

\* C9: handleHotUpdate sends full-reload only after a pass that read the
\* changed file has completed.
C9_ReloadAfterPass == lastReload # "early"

(***************************************************************************)
(* Paths: absolute, normalised, as their sequence of segments.             *)
(***************************************************************************)
\* resolvedDir, the scanned root
resolvedDir == <<"r">>

PathsOver(segs) == UNION {[1..n -> segs] : n \in 1..MaxDepth}

IsPrefix(a, b) == Len(a) <= Len(b) /\ SubSeq(b, 1, Len(a)) = a

\* the length of the longest common prefix of two paths
RECURSIVE CommonLen(_, _)
CommonLen(a, b) ==
  IF a = <<>> \/ b = <<>> \/ Head(a) # Head(b) THEN 0
  ELSE 1 + CommonLen(Tail(a), Tail(b))

Ups(n) == [i \in 1..n |-> ".."]

\* path.relative(from, to)
relative(from, to) ==
  LET k == CommonLen(from, to)
  IN Ups(Len(from) - k) \o SubSeq(to, k + 1, Len(to))

\* relative.split(path.sep): the empty string splits into one empty segment
split(rel) == IF rel = <<>> THEN <<"">> ELSE rel

\* path.join(...): '..' removes the segment before it
RECURSIVE normalize(_, _)
normalize(done, rest) ==
  IF rest = <<>> THEN done
  ELSE IF Head(rest) = ".."
    THEN normalize(IF done = <<>> THEN <<>> ELSE SubSeq(done, 1, Len(done) - 1), Tail(rest))
    ELSE normalize(Append(done, Head(rest)), Tail(rest))
join(base, segments) == normalize(<<>>, base \o segments)

\* String.endsWith('.ts') of a path, decided by its last segment
TsNames == {"index.ts", "keys.ts", "queryKeys.ts", "a.ts"}
endsWithTs(file) == file # <<>> /\ file[Len(file)] \in TsNames

(***************************************************************************)
(* FileWatcher (part_004 222-314)                                          *)
(***************************************************************************)
\* isInDir: the root itself, or a path that starts with the root and a separator
isInDir(file) ==
  \/ file = resolvedDir
  \/ (Len(file) > Len(resolvedDir) /\ IsPrefix(resolvedDir, file))

\* isManagedArtifact with the root key table left out
isManagedArtifactNoKeys(file) ==
  LET rel == relative(resolvedDir, file)
      segments == split(rel)
  IN \/ rel = <<"index.ts">>
     \/ (Len(segments) = 2 /\ segments[2] = "queryKeys.ts")

isManagedArtifact(file) ==
  LET rel == relative(resolvedDir, file)
      segments == split(rel)
  IN \/ rel = <<"index.ts">>
     \/ rel = <<"keys.ts">>
     \/ (Len(segments) = 2 /\ segments[2] = "queryKeys.ts")

shouldProcess(file) == isInDir(file) /\ ~isManagedArtifact(file)

WatchSegs == {"r", "ns", "queries", "index.ts", "keys.ts", "queryKeys.ts", "a.ts"}
WatchKinds == {"add", "change", "unlink", "addDir", "unlinkDir", "hmr"}

InitWatch ==
  /\ SchedOff /\ seed = SeedOff /\ alias = AliasOff /\ sync = SyncOff /\ MoreOff
  /\ watch \in [kind : WatchKinds, path : PathsOver(WatchSegs), done : {FALSE}, did : {{}}]

Handled(did) == watch' = [watch EXCEPT !.done = TRUE, !.did = did]

\* handleAdd -> onAdd -> handleFileAdded: seed, emit('add'), scheduleSync
watchAdd ==
  /\ ~watch.done /\ watch.kind = "add"
  /\ Handled(IF shouldProcess(watch.path) THEN {"seed", "emit", "schedule"} ELSE {})

\* handleChange -> emit('change'), onChange -> scheduleSync
watchChange ==
  /\ ~watch.done /\ watch.kind = "change"
  /\ Handled(IF shouldProcess(watch.path) THEN {"emit", "schedule"} ELSE {})

\* handleUnlink -> emit('unlink'), onUnlink -> scheduleSync
watchUnlink ==
  /\ ~watch.done /\ watch.kind = "unlink"
  /\ Handled(IF shouldProcess(watch.path) THEN {"emit", "schedule"} ELSE {})

\* handleAddDir -> onAddDir -> handleDirectoryAdded: skeleton, scheduleSync
watchAddDir ==
  /\ ~watch.done /\ watch.kind = "addDir"
  /\ Handled(IF isInDir(watch.path) THEN {"skeleton", "schedule"} ELSE {})

\* handleUnlinkDir -> onUnlinkDir -> scheduleSync
watchUnlinkDir ==
  /\ ~watch.done /\ watch.kind = "unlinkDir"
  /\ Handled(IF isInDir(watch.path) THEN {"schedule"} ELSE {})

\* NXQueryPlugin.handleHotUpdate: emit('change'), scheduleSync, full-reload
watchHotUpdate ==
  /\ ~watch.done /\ watch.kind = "hmr"
  /\ Handled(IF shouldProcess(watch.path) THEN {"emit", "schedule", "reload"} ELSE {})

WatchFrame == UNCHANGED <<schedVars, seed, alias, sync, moreVars>>

NextWatch ==
  \/ watchAdd /\ WatchFrame
  \/ watchChange /\ WatchFrame
  \/ watchUnlink /\ WatchFrame
  \/ watchAddDir /\ WatchFrame
  \/ watchUnlinkDir /\ WatchFrame
  \/ watchHotUpdate /\ WatchFrame

SpecWatch ==
  InitWatch /\ [][NextWatch]_vars

\* C5: an add, change, unlink or hot-update for a path outside the root, or
\* for index.ts, keys.ts or <namespace>/queryKeys.ts of the root, schedules no
\* pass, seeds nothing, calls no subscriber and sends no reload.
OutsideRoot(file) == ~IsPrefix(resolvedDir, file)
GeneratedArtifact(file) ==
  \/ file = resolvedDir \o <<"index.ts">>
  \/ file = resolvedDir \o <<"keys.ts">>
  \/ \E ns \in WatchSegs : file = resolvedDir \o <<ns, "queryKeys.ts">>
C5_SelfEventFiltering ==
  (/\ watch.done
   /\ watch.kind \in {"add", "change", "unlink", "hmr"}
   /\ (OutsideRoot(watch.path) \/ GeneratedArtifact(watch.path)))
  => watch.did = {}

\* a change of a namespace key table was handled and did nothing
C5_Witness ==
  /\ watch.done /\ watch.kind = "change" /\ watch.did = {}
  /\ watch.path = <<"r", "ns", "queryKeys.ts">>

(***************************************************************************)
(* FileSystemWriter.maybeSeedOperationFile (part_004 61-88)                *)
(***************************************************************************)
Whitespace == {" "}
ContentChars == {" ", "x"}
Contents == UNION {[1..n -> ContentChars] : n \in 0..MaxContentLen}

\* String.trim
RECURSIVE trimStart(_)
trimStart(s) == IF s # <<>> /\ Head(s) \in Whitespace THEN trimStart(Tail(s)) ELSE s
RECURSIVE trimEnd(_)
trimEnd(s) ==
  IF s # <<>> /\ s[Len(s)] \in Whitespace THEN trimEnd(SubSeq(s, 1, Len(s) - 1)) ELSE s
trim(s) == trimEnd(trimStart(s))

\* the test on the first character alone instead of on the trimmed content
hasUserContentFirstChar(existing) == existing # <<>> /\ existing[1] \notin Whitespace

\* existing.trim().length > 0
hasUserContent(existing) == Len(trim(existing)) > 0

\* filename.replace(/\.ts$/, '')
baseName(filename) ==
  CASE filename = "a.ts" -> "a"
    [] filename = "index.ts" -> "index"
    [] filename = "keys.ts" -> "keys"
    [] filename = "queryKeys.ts" -> "queryKeys"
    [] OTHER -> filename

\* buildQueryTemplate / buildMutationTemplate: a body without blank tokens,
\* parameterised by the kind folder, the namespace and the file's base name
template(scope, namespace, base) ==
  <<IF scope = "queries" THEN "createQueryOptions" ELSE "createMutationOptions",
    namespace, base>>

\* the content of the file at `at` after maybeSeedOperationFile(filePath)
maybeSeedOperationFile(filePath, at, exists, content) ==
  IF ~endsWithTs(filePath) THEN content
  ELSE LET segments == split(relative(resolvedDir, filePath)) IN
    IF Len(segments) # 3 THEN content
    ELSE IF segments[2] \notin {"queries", "mutations"} THEN content
    ELSE LET absPath == join(resolvedDir, segments) IN
      IF absPath # at \/ ~exists THEN content
      ELSE IF hasUserContent(content) THEN content
      ELSE template(segments[2], segments[1], baseName(segments[3]))

SeedSegs == {"r", "ns", "queries", "mutations", "a.ts", "a.js"}

InitSeed ==
  /\ SchedOff /\ watch = WatchOff /\ alias = AliasOff /\ sync = SyncOff /\ MoreOff
  /\ \E p \in PathsOver(SeedSegs), e \in BOOLEAN, c \in Contents :
       /\ (~e => c = <<>>)
       /\ seed = [path |-> p, exists |-> e, content |-> c, calls |-> 0, prev |-> c]

\* one call of maybeSeedOperationFile for the file the notification names
seedCall ==
  /\ seed.calls < MaxSeeds
  /\ seed' = [seed EXCEPT
       !.calls = @ + 1,
       !.prev = seed.content,
       !.content = maybeSeedOperationFile(seed.path, seed.path, seed.exists, seed.content)]

NextSeed == seedCall /\ UNCHANGED <<schedVars, watch, alias, sync, moreVars>>

SpecSeed ==
  InitSeed /\ [][NextSeed]_vars

\* C7: a call of maybeSeedOperationFile leaves a file that holds a
\* non-whitespace character as it is; so the second seed of an empty file
\* leaves what the first seed wrote.
NonBlank(content) == \E i \in 1..Len(content) : content[i] \notin Whitespace
C7_SeedNonDestructive ==
  (seed.calls >= 1 /\ seed.exists /\ NonBlank(seed.prev)) => seed.content = seed.prev

\* the second seed of a file the first seed filled changed nothing
C7_Witness ==
  /\ seed.calls = 2 /\ seed.exists
  /\ seed.prev = template("queries", "ns", "a") /\ seed.content = seed.prev

\* C8: maybeSeedOperationFile writes only to
\* <root>/<namespace>/<queries|mutations>/<name>.ts.
SeedScope(file) ==
  /\ Len(file) = Len(resolvedDir) + 3
  /\ IsPrefix(resolvedDir, file)
  /\ file[Len(resolvedDir) + 2] \in {"queries", "mutations"}
  /\ file[Len(file)] \in TsNames
C8_SeedScope ==
  (seed.calls >= 1 /\ seed.content # seed.prev) => SeedScope(seed.path)


(***************************************************************************)
(* Strings, as sequences of characters                                     *)
(***************************************************************************)
UpperCase == <<"A", "B", "C", "D", "E", "F", "G", "H", "I", "J", "K", "L", "M",
               "N", "O", "P", "Q", "R", "S", "T", "U", "V", "W", "X", "Y", "Z">>
LowerCase == <<"a", "b", "c", "d", "e", "f", "g", "h", "i", "j", "k", "l", "m",
               "n", "o", "p", "q", "r", "s", "t", "u", "v", "w", "x", "y", "z">>
Decimal == <<"0", "1", "2", "3", "4", "5", "6", "7", "8", "9">>
Range(f) == {f[i] : i \in DOMAIN f}
Letters == Range(UpperCase) \cup Range(LowerCase)
Digits == Range(Decimal)

\* String.toUpperCase of one character
toUpperCase(c) ==
  IF c \in Range(LowerCase)
    THEN UpperCase[CHOOSE i \in DOMAIN LowerCase : LowerCase[i] = c]
    ELSE c

\* value.split(/[^A-Za-z0-9]+/).filter(Boolean): the maximal runs of letters
\* and digits
RECURSIVE splitWords(_, _, _)
splitWords(value, word, words) ==
  IF value = <<>> THEN (IF word = <<>> THEN words ELSE Append(words, word))
  ELSE IF Head(value) \in Letters \cup Digits
    THEN splitWords(Tail(value), Append(word, Head(value)), words)
    ELSE splitWords(Tail(value), <<>>, IF word = <<>> THEN words ELSE Append(words, word))

\* segment.charAt(0).toUpperCase() + segment.slice(1)
capitalize(segment) == <<toUpperCase(Head(segment))>> \o Tail(segment)

RECURSIVE joinWords(_)
joinWords(words) ==
  IF words = <<>> THEN <<>> ELSE capitalize(Head(words)) \o joinWords(Tail(words))

\* FileSystemReader.toPascalCase
toPascalCase(value) == joinWords(splitWords(value, <<>>, <<>>))

S_create == <<"c", "r", "e", "a", "t", "e">>
S_QueryOptions == <<"Q", "u", "e", "r", "y", "O", "p", "t", "i", "o", "n", "s">>
S_MutationOptions ==
  <<"M", "u", "t", "a", "t", "i", "o", "n", "O", "p", "t", "i", "o", "n", "s">>
S_createQueryOptions == S_create \o S_QueryOptions
S_createMutationOptions == S_create \o S_MutationOptions
S_fetch == <<"f", "e", "t", "c", "h">>

\* FileSystemReader.buildAlias; base is path.basename(filePath, '.ts')
buildAlias(namespace, exportName, kind, base) ==
  LET namespacePascal == toPascalCase(namespace)
      filePascal == toPascalCase(base)
      suffix == IF kind = "query" THEN S_QueryOptions ELSE S_MutationOptions
      prefix == IF exportName = S_createQueryOptions \/ exportName = S_createMutationOptions
                  THEN S_create ELSE <<>>
  IN prefix \o namespacePascal \o filePascal \o suffix

(***************************************************************************)
(* Two operation files of one tree and their aliases                       *)
(***************************************************************************)
NameChars == {"a", "-"}
\* the names that hold a letter
Names ==
  {n \in UNION {[1..k -> NameChars] : k \in 1..MaxNameLen} :
     \E i \in DOMAIN n : n[i] \in Letters}
OperationKinds == {"query", "mutation"}
\* the factory a file exports: a canonical name, or another one
ExportNames == {S_createQueryOptions, S_createMutationOptions, S_fetch}
Files == [namespace : Names, name : Names, kind : OperationKinds, factoryName : ExportNames]

SameFile(f, g) == f.namespace = g.namespace /\ f.name = g.name /\ f.kind = g.kind

InitAlias ==
  /\ SchedOff /\ watch = WatchOff /\ seed = SeedOff /\ sync = SyncOff /\ MoreOff
  /\ \E f \in Files, g \in Files :
       /\ ~SameFile(f, g)
       /\ alias = [a |-> f, b |-> g, done |-> FALSE, aliasA |-> <<>>, aliasB |-> <<>>]

\* parseOperationFile builds the alias of each of the two files
aliasBuild ==
  /\ ~alias.done
  /\ alias' = [alias EXCEPT
       !.done = TRUE,
       !.aliasA = buildAlias(alias.a.namespace, alias.a.factoryName, alias.a.kind, alias.a.name),
       !.aliasB = buildAlias(alias.b.namespace, alias.b.factoryName, alias.b.kind, alias.b.name)]

NextAlias == aliasBuild /\ UNCHANGED <<schedVars, watch, seed, sync, moreVars>>

SpecAlias ==
  InitAlias /\ [][NextAlias]_vars

\* C10: two operation files that differ in namespace, base name or kind get
\* different aliases.
C10_AliasUnique == alias.done /\ alias.a # <<>> => alias.aliasA # alias.aliasB

(***************************************************************************)
(* Ordering of strings                                                     *)
(***************************************************************************)
\* the code units of the model in ascending order; "U00E9" is the letter e
\* with acute accent as one code unit, "U0301" the combining acute accent
CodeUnits ==
  <<" ", "\"", "$", "'", "-", ".", "/">> \o Decimal \o UpperCase
    \o <<"[", "]", "_">> \o LowerCase
    \o <<"U00E9", "U0301">>
Code(c) == CHOOSE i \in DOMAIN CodeUnits : CodeUnits[i] = c

\* String.toLowerCase of one character
toLowerCase(c) ==
  IF c \in Range(UpperCase)
    THEN LowerCase[CHOOSE i \in DOMAIN UpperCase : UpperCase[i] = c]
    ELSE c

\* the order of UTF-16 code units, which Array.prototype.sort() uses by default
RECURSIVE codeUnitLess(_, _)
codeUnitLess(a, b) ==
  IF b = <<>> THEN FALSE
  ELSE IF a = <<>> THEN TRUE
  ELSE IF Head(a) = Head(b) THEN codeUnitLess(Tail(a), Tail(b))
  ELSE Code(Head(a)) < Code(Head(b))

\* the canonical decomposition of a string
RECURSIVE decompose(_)
decompose(a) ==
  IF a = <<>> THEN <<>>
  ELSE (IF Head(a) = "U00E9" THEN <<"e", "U0301">> ELSE <<Head(a)>>) \o decompose(Tail(a))

\* a.localeCompare(b) < 0: canonically equivalent strings compare as equal,
\* letters compare without case first, and of two strings that differ in
\* case only the one in lower case comes first
localeFold(a) == [i \in DOMAIN decompose(a) |-> toLowerCase(decompose(a)[i])]
localeCompareLess(a, b) ==
  IF localeFold(a) # localeFold(b)
    THEN codeUnitLess(localeFold(a), localeFold(b))
    ELSE codeUnitLess(decompose(b), decompose(a))

\* items.sort((a, b) => a.key.localeCompare(b.key)): stable, ascending
RECURSIVE insertByKey(_, _)
insertByKey(sorted, x) ==
  IF sorted = <<>> THEN <<x>>
  ELSE IF localeCompareLess(x.key, Head(sorted).key) THEN <<x>> \o sorted
  ELSE <<Head(sorted)>> \o insertByKey(Tail(sorted), x)
RECURSIVE sortByKey(_)
sortByKey(items) ==
  IF items = <<>> THEN <<>>
  ELSE insertByKey(sortByKey(SubSeq(items, 1, Len(items) - 1)), items[Len(items)])

\* strings.sort()
RECURSIVE insertString(_, _)
insertString(sorted, x) ==
  IF sorted = <<>> THEN <<x>>
  ELSE IF codeUnitLess(x, Head(sorted)) THEN <<x>> \o sorted
  ELSE <<Head(sorted)>> \o insertString(Tail(sorted), x)
RECURSIVE sortStrings(_)
sortStrings(strings) ==
  IF strings = <<>> THEN <<>>
  ELSE insertString(sortStrings(SubSeq(strings, 1, Len(strings) - 1)), strings[Len(strings)])

\* the sequences that list each element of a set once
Perms(S) == {f \in [1..Cardinality(S) -> S] : \A x \in S : \E i \in DOMAIN f : f[i] = x}

startsWith(s, prefix) == IsPrefix(prefix, s)
endsWith(s, suffix) ==
  Len(suffix) <= Len(s) /\ SubSeq(s, Len(s) - Len(suffix) + 1, Len(s)) = suffix

\* parts.join(sep)
RECURSIVE joinWith(_, _)
joinWith(parts, sep) ==
  IF parts = <<>> THEN <<>>
  ELSE IF Len(parts) = 1 THEN parts[1]
  ELSE parts[1] \o sep \o joinWith(Tail(parts), sep)

(***************************************************************************)
(* The operation files of a tree and what the parser finds in them.        *)
(* A path is the sequence of its segments, a segment a string.             *)
(***************************************************************************)
S_ts == <<".", "t", "s">>
S_queries == <<"q", "u", "e", "r", "i", "e", "s">>
S_mutations == <<"m", "u", "t", "a", "t", "i", "o", "n", "s">>
S_query == <<"q", "u", "e", "r", "y">>
S_mutation == <<"m", "u", "t", "a", "t", "i", "o", "n">>
S_args == <<"a", "r", "g", "s">>
S_Args == <<"A", "r", "g", "s">>
S_rawArgs == <<"r", "a", "w">> \o S_Args
S_Item == <<"I", "t", "e", "m">>
S_QueryKeys == <<"Q", "u", "e", "r", "y", "K", "e", "y", "s">>
S_index_ts == <<"i", "n", "d", "e", "x">> \o S_ts
S_keys_ts == <<"k", "e", "y", "s">> \o S_ts
S_queryKeys_ts == <<"q", "u", "e", "r", "y">> \o <<"K", "e", "y", "s">> \o S_ts
S_node_modules == <<"n", "o", "d", "e", "_", "m", "o", "d", "u", "l", "e", "s">>

\* the scanned root, its segments spelled out
rootPath == <<<<"r">>>>

NsNames == {<<"a">>, <<"B">>}
OpNames == {<<"x">>, <<"y">>}
Folders == {S_queries, S_mutations}
folderOfKind(kind) == IF kind = "query" THEN S_queries ELSE S_mutations
TreeFiles == [namespace : NsNames, folder : Folders, name : OpNames]

\* what parseSync yields for the file <namespace>/<folder>/<name>.ts (the
\* query y exports a plain function, the mutation y does not parse):
\* whether it parses, the exported function declarators in order with their
\* first parameter, and the exported type names in order
sourceOf(folder, name) ==
  CASE folder = S_queries /\ name # <<"y">> ->
         [parses |-> TRUE,
          functions |-> <<[name |-> S_fetch, params |-> <<>>],
                          [name |-> S_createQueryOptions,
                           params |-> <<[type |-> "Identifier", name |-> S_rawArgs]>>]>>,
          types |-> <<S_Item, S_Args>>]
    [] folder = S_queries /\ name = <<"y">> ->
         [parses |-> TRUE,
          functions |-> <<[name |-> S_fetch,
                           params |-> <<[type |-> "ObjectPattern", name |-> <<>>]>>]>>,
          types |-> <<>>]
    [] folder = S_mutations /\ name # <<"y">> ->
         [parses |-> TRUE,
          functions |-> <<[name |-> S_createMutationOptions, params |-> <<>>]>>,
          types |-> <<S_Args>>]
    [] OTHER -> [parses |-> FALSE, functions |-> <<>>, types |-> <<>>]

\* null, undefined
Null == [kind |-> "null"]
IsNull(value) == value.kind = "null"
Undefined == <<>>

dirname(file) == SubSeq(file, 1, Len(file) - 1)
basename(file, ext) ==
  LET last == file[Len(file)]
  IN IF endsWith(last, ext) /\ last # ext
       THEN SubSeq(last, 1, Len(last) - Len(ext)) ELSE last

normalizeImportPath(fromFile, toFile) ==
  LET rel == joinWith(relative(dirname(fromFile), toFile), <<"/">>)
      dotted == IF startsWith(rel, <<".">>) THEN rel ELSE <<".", "/">> \o rel
  IN IF endsWith(dotted, S_ts) THEN SubSeq(dotted, 1, Len(dotted) - 3) ELSE dotted

\* the first candidate, whatever its name
findOperationFactoryFirst(functions) ==
  IF functions = <<>> THEN Null ELSE functions[1]

findOperationFactory(functions) ==
  LET preferred == {i \in DOMAIN functions :
                      functions[i].name \in {S_createQueryOptions, S_createMutationOptions}}
  IN IF functions = <<>> THEN Null
     ELSE IF preferred # {}
       THEN functions[CHOOSE i \in preferred : \A j \in preferred : i <= j]
       ELSE functions[1]

findArgsTypeName(types) ==
  LET hits == {i \in DOMAIN types : endsWith(types[i], S_Args)}
  IN IF hits = {} THEN Undefined
     ELSE types[CHOOSE i \in hits : \A j \in hits : i <= j]

extractParamName(params) ==
  IF params = <<>> THEN Undefined
  ELSE IF params[1].type = "Identifier" /\ params[1].name # <<>> THEN params[1].name
  ELSE S_args

parseOperationFile(namespace, kind, filePath, source) ==
  LET declarator == findOperationFactory(source.functions)
  IN IF ~source.parses \/ source.functions = <<>> THEN Null
     ELSE [kind |-> kind,
           namespace |-> namespace,
           name |-> basename(filePath, S_ts),
           filePath |-> filePath,
           importPath |-> normalizeImportPath(rootPath \o <<S_index_ts>>, filePath),
           factoryName |-> declarator.name,
           aliasName |-> buildAlias(namespace, declarator.name, kind, basename(filePath, S_ts)),
           paramName |-> IF kind = "mutation" THEN Undefined
                         ELSE extractParamName(declarator.params),
           hasParams |-> kind # "mutation" /\ declarator.params # <<>>,
           argsTypeName |-> findArgsTypeName(source.types)]

(***************************************************************************)
(* FileSystemReader: the snapshot of a tree.  A Map is the sequence of its *)
(* entries in insertion order.                                             *)
(***************************************************************************)
EmptyBucket == [query |-> Null, mutation |-> Null]

\* the bucket of the name replaced, what it held dropped
mapSetNoMerge(map, name, kind, info) ==
  IF \E i \in DOMAIN map : map[i].key = name
    THEN [i \in DOMAIN map |->
            IF map[i].key = name
              THEN [map[i] EXCEPT !.bucket = [EmptyBucket EXCEPT ![kind] = info]]
              ELSE map[i]]
    ELSE Append(map, [key |-> name, bucket |-> [EmptyBucket EXCEPT ![kind] = info]])

\* bucket = map.get(name) ?? {}; bucket[kind] = info; map.set(name, bucket)
mapSet(map, name, kind, info) ==
  IF \E i \in DOMAIN map : map[i].key = name
    THEN [i \in DOMAIN map |->
            IF map[i].key = name
              THEN [map[i] EXCEPT !.bucket = [@ EXCEPT ![kind] = info]]
              ELSE map[i]]
    ELSE Append(map, [key |-> name, bucket |-> [EmptyBucket EXCEPT ![kind] = info]])

\* the walk of a folder given up at the first file without descriptor
RECURSIVE visitUntilNull(_, _, _, _, _, _)
visitUntilNull(map, namespace, namespacePath, kind, folder, entries) ==
  IF entries = <<>> THEN map
  ELSE
    LET entry == Head(entries)
        filePath == namespacePath \o <<folder, entry>>
        info == parseOperationFile(namespace, kind, filePath,
                                   sourceOf(folder, basename(filePath, S_ts)))
    IN IF IsNull(info) THEN map
       ELSE visitUntilNull(mapSet(map, info.name, kind, info),
                           namespace, namespacePath, kind, folder, Tail(entries))

\* visit(kind, folder) of collectOperations over the entries readdir gave
RECURSIVE visit(_, _, _, _, _, _)
visit(map, namespace, namespacePath, kind, folder, entries) ==
  IF entries = <<>> THEN map
  ELSE
    LET entry == Head(entries)
        filePath == namespacePath \o <<folder, entry>>
        info == parseOperationFile(namespace, kind, filePath,
                                   sourceOf(folder, basename(filePath, S_ts)))
    IN visit(IF ~endsWith(entry, S_ts) \/ IsNull(info) THEN map
             ELSE mapSet(map, info.name, kind, info),
             namespace, namespacePath, kind, folder, Tail(entries))

\* listing[folder] is what safeReadDir returns for the folder
collectOperations(namespace, namespacePath, listing) ==
  LET queries == visit(<<>>, namespace, namespacePath, "query", S_queries,
                       listing[S_queries])
      both == visit(queries, namespace, namespacePath, "mutation", S_mutations,
                    listing[S_mutations])
  IN sortByKey(both)

\* entries is what readdir returns for the root, listings[name] the listing
\* of each of its directories
RECURSIVE collectEntries(_, _)
collectEntries(entries, listings) ==
  IF entries = <<>> THEN <<>>
  ELSE
    LET name == Head(entries)
        rest == collectEntries(Tail(entries), listings)
    IN IF startsWith(name, <<".">>) \/ name = S_node_modules THEN rest
       ELSE <<[key |-> name,
               name |-> name,
               absolutePath |-> rootPath \o <<name>>,
               operations |-> collectOperations(name, rootPath \o <<name>>,
                                                listings[name])]>> \o rest
collectNamespaces(entries, listings) == sortByKey(collectEntries(entries, listings))

(***************************************************************************)
(* CodeGenerator: a rendered file is the sequence of its lines, a line the *)
(* sequence of the strings that vary in it.                                *)
(***************************************************************************)
IdentifierStart == Letters \cup {"_", "$"}
isValidIdentifier(value) ==
  /\ value # <<>>
  /\ value[1] \in IdentifierStart
  /\ \A i \in DOMAIN value : value[i] \in IdentifierStart \cup Digits

\* every name taken for an identifier
formatPropertyKeyBare(name) == name

\* JSON.stringify of a string that needs no escape
formatPropertyKey(name) ==
  IF isValidIdentifier(name) THEN name ELSE <<"[", "\"">> \o name \o <<"\"", "]">>

toCamelCase(value) ==
  LET pascal == toPascalCase(value)
  IN IF pascal = <<>> THEN <<>> ELSE <<toLowerCase(Head(pascal))>> \o Tail(pascal)

\* Object.values(bucket): query is set before mutation
bucketValues(bucket) ==
  (IF IsNull(bucket.query) THEN <<>> ELSE <<bucket.query>>)
    \o (IF IsNull(bucket.mutation) THEN <<>> ELSE <<bucket.mutation>>)

RECURSIVE allOperations(_)
allOperations(operations) ==
  IF operations = <<>> THEN <<>>
  ELSE bucketValues(Head(operations).bucket) \o allOperations(Tail(operations))

\* a string literal in single quotes
Quote(value) == <<"'">> \o value \o <<"'">>

renderOperationFunction(propertyName, op, namespace, operationName, includeKindSegment) ==
  LET paramName == IF op.paramName # Undefined THEN op.paramName
                   ELSE IF op.hasParams THEN S_args ELSE Undefined
      signature == IF paramName = Undefined THEN <<>>
                   ELSE IF op.argsTypeName # Undefined
                     THEN paramName \o <<":", " ">> \o op.argsTypeName
                     ELSE paramName
      named == <<Quote(namespace), Quote(operationName)>>
  IN IF propertyName = "mutation"
       THEN [property |-> formatPropertyKey(S_mutation),
             signature |-> <<>>,
             arrow |-> FALSE,
             keySegments |-> named \o (IF includeKindSegment
                                        THEN <<Quote(S_mutation)>> ELSE <<>>)]
       ELSE [property |-> formatPropertyKey(S_query),
             signature |-> signature,
             arrow |-> TRUE,
             keySegments |-> named \o (IF includeKindSegment
                                        THEN <<Quote(S_query)>> ELSE <<>>)
                               \o (IF paramName = Undefined THEN <<>> ELSE <<paramName>>)]

renderNamespaceEntry(name, namespace, bucket) ==
  LET hasQuery == ~IsNull(bucket.query)
      hasMutation == ~IsNull(bucket.mutation)
      includeKindSegment == hasQuery /\ hasMutation
  IN IF ~hasQuery /\ ~hasMutation THEN <<>>
     ELSE <<[open |-> formatPropertyKey(name)]>>
            \o (IF hasQuery
                  THEN <<renderOperationFunction("query", bucket.query, namespace, name,
                                                 includeKindSegment)>>
                  ELSE <<>>)
            \o (IF hasMutation
                  THEN <<renderOperationFunction("mutation", bucket.mutation, namespace,
                                                 name, includeKindSegment)>>
                  ELSE <<>>)
            \o <<[close |-> "},"]>>

\* a map from type name to the import path first seen with it
RECURSIVE importMapByName(_, _, _)
importMapByName(map, queryKeysFile, ops) ==
  IF ops = <<>> THEN map
  ELSE
    LET op == Head(ops)
        importPath == normalizeImportPath(queryKeysFile, op.filePath)
        next ==
          IF op.argsTypeName = Undefined THEN map
          ELSE IF \E i \in DOMAIN map : op.argsTypeName \in Range(map[i].names) THEN map
          ELSE Append(map, [key |-> importPath, names |-> <<op.argsTypeName>>])
    IN importMapByName(next, queryKeysFile, Tail(ops))

\* importMap of renderNamespaceQueryKeys: import path -> set of type names
RECURSIVE importMapOf(_, _, _)
importMapOf(map, queryKeysFile, ops) ==
  IF ops = <<>> THEN map
  ELSE
    LET op == Head(ops)
        importPath == normalizeImportPath(queryKeysFile, op.filePath)
        next ==
          IF op.argsTypeName = Undefined THEN map
          ELSE IF \E i \in DOMAIN map : map[i].key = importPath
            THEN [i \in DOMAIN map |->
                    IF map[i].key = importPath /\ op.argsTypeName \notin Range(map[i].names)
                      THEN [map[i] EXCEPT !.names = Append(@, op.argsTypeName)]
                      ELSE map[i]]
            ELSE Append(map, [key |-> importPath, names |-> <<op.argsTypeName>>])
    IN importMapOf(next, queryKeysFile, Tail(ops))

RECURSIVE namespaceEntries(_, _)
namespaceEntries(operations, namespace) ==
  IF operations = <<>> THEN <<>>
  ELSE renderNamespaceEntry(Head(operations).key, namespace, Head(operations).bucket)
         \o namespaceEntries(Tail(operations), namespace)

renderNamespaceQueryKeys(namespace) ==
  LET queryKeysFile == namespace.absolutePath \o <<S_queryKeys_ts>>
      importMap == sortByKey(importMapOf(<<>>, queryKeysFile,
                                         allOperations(namespace.operations)))
      importLines == [i \in DOMAIN importMap |->
                        [importType |-> sortStrings(importMap[i].names),
                         from |-> importMap[i].key]]
  IN [imports |-> importLines,
      body |-> namespaceEntries(namespace.operations, namespace.name)]

renderRootQueryKeys(namespaces) ==
  [imports |-> [i \in DOMAIN namespaces |->
                  [as |-> toCamelCase(namespaces[i].name) \o S_QueryKeys,
                   from |-> <<".", "/">> \o namespaces[i].name \o <<"/">>
                              \o basename(<<S_queryKeys_ts>>, S_ts)]],
   body |-> [i \in DOMAIN namespaces |->
               [property |-> formatPropertyKey(namespaces[i].name),
                value |-> toCamelCase(namespaces[i].name) \o S_QueryKeys]]]

\* the text of an import line of index.ts, up to what all such lines share
importLineText(op) == op.factoryName \o <<" ">> \o op.aliasName \o <<" ">> \o op.importPath

RECURSIVE indexImports(_)
indexImports(namespaces) ==
  IF namespaces = <<>> THEN <<>>
  ELSE LET ops == allOperations(Head(namespaces).operations)
       IN [i \in DOMAIN ops |-> importLineText(ops[i])] \o indexImports(Tail(namespaces))

indexOperation(entry) ==
  IF ~IsNull(entry.bucket.query) /\ ~IsNull(entry.bucket.mutation)
    THEN [property |-> formatPropertyKey(entry.key),
          query |-> entry.bucket.query.aliasName,
          mutation |-> entry.bucket.mutation.aliasName]
    ELSE [property |-> formatPropertyKey(entry.key),
          value |-> (IF ~IsNull(entry.bucket.query)
                       THEN entry.bucket.query ELSE entry.bucket.mutation).aliasName]

renderNXQueryFile(namespaces) ==
  [imports |-> sortStrings(indexImports(namespaces)),
   body |-> [i \in DOMAIN namespaces |->
               [property |-> formatPropertyKey(namespaces[i].name),
                operations |-> [j \in DOMAIN namespaces[i].operations |->
                                  indexOperation(namespaces[i].operations[j])]]]]

(***************************************************************************)
(* Successive passes of syncProject over one tree that nothing else        *)
(* touches.  A file on disk is its content and its modification time.      *)
(***************************************************************************)
NoFile == [content |-> Absent, mtime |-> 0]
Text(rendered) == <<"text", rendered>>

\* the comparison with the existing content left out
writeFileAlways(existing, content, now) == [content |-> content, mtime |-> now]

\* FileSystemWriter.writeFileIfChanged at the time now
writeFileIfChanged(existing, content, now) ==
  IF existing.content = content THEN existing ELSE [content |-> content, mtime |-> now]

\* FileSystemWriter.ensureFile at the time now
ensureFileAt(existing, now) ==
  IF existing.content = Absent
    THEN [content |-> ensureFile(existing.content), mtime |-> now]
    ELSE existing

InitSync ==
  /\ SchedOff /\ watch = WatchOff /\ seed = SeedOff /\ alias = AliasOff /\ MoreOff
  /\ \E dirs \in SUBSET NsNames, initialised \in BOOLEAN :
       \E files \in SUBSET {f \in TreeFiles : f.namespace \in dirs} :
         sync = [pc |-> "ensure",
                 dirs |-> dirs,
                 files |-> files,
                 disk |-> [index |-> IF initialised THEN [content |-> Stub, mtime |-> 0]
                                     ELSE NoFile,
                           keys |-> IF initialised THEN [content |-> Stub, mtime |-> 0]
                                    ELSE NoFile,
                           ns |-> [n \in NsNames |-> NoFile]],
                 clock |-> 0,
                 run |-> 0,
                 namespaces |-> <<>>,
                 left |-> {},
                 first |-> [index |-> NoFile, keys |-> NoFile,
                            ns |-> [n \in NsNames |-> NoFile]]]

\* await this.writer.ensureBaseStructure()
syncEnsure ==
  /\ sync.pc = "ensure"
  /\ LET now == sync.clock + 1
     IN sync' = [sync EXCEPT
                   !.pc = "read",
                   !.clock = now,
                   !.disk = [index |-> ensureFileAt(sync.disk.index, now),
                             keys |-> ensureFileAt(sync.disk.keys, now),
                             ns |-> [n \in NsNames |->
                                       IF n \in sync.dirs
                                         THEN ensureFileAt(sync.disk.ns[n], now)
                                         ELSE sync.disk.ns[n]]]]

\* const namespaces = await this.reader.collectNamespaces(); readdir lists
\* the entries of a directory in an order of its own
syncRead ==
  /\ sync.pc = "read"
  /\ \E entries \in Perms(sync.dirs), names \in Perms(OpNames) :
       LET listing(n, folder) ==
             LET Present(name) ==
                   [namespace |-> n, folder |-> folder, name |-> name] \in sync.files
                 present == SelectSeq(names, Present)
             IN [i \in DOMAIN present |-> present[i] \o S_ts]
           listings == [n \in sync.dirs |-> [folder \in Folders |-> listing(n, folder)]]
           namespaces == collectNamespaces(entries, listings)
       IN sync' = [sync EXCEPT
                     !.pc = IF namespaces = <<>> THEN "writeRoot" ELSE "writeNs",
                     !.clock = @ + 1,
                     !.namespaces = namespaces,
                     !.left = {namespaces[i].name : i \in DOMAIN namespaces}]

\* one of the writes of Promise.all(namespaces.map(...)) completes
syncWriteNamespace(n) ==
  /\ sync.pc = "writeNs"
  /\ n \in sync.left
  /\ LET now == sync.clock + 1
         ns == sync.namespaces[CHOOSE i \in DOMAIN sync.namespaces :
                                 sync.namespaces[i].name = n]
     IN sync' = [sync EXCEPT
                   !.pc = IF sync.left = {n} THEN "writeRoot" ELSE "writeNs",
                   !.clock = now,
                   !.left = @ \ {n},
                   !.disk.ns[n] =
                     writeFileIfChanged(@, Text(renderNamespaceQueryKeys(ns)), now)]

\* await this.writeFileIfChanged(<root>/keys.ts, rootKeysContent)
syncWriteRoot ==
  /\ sync.pc = "writeRoot"
  /\ LET now == sync.clock + 1
     IN sync' = [sync EXCEPT
                   !.pc = "writeIndex",
                   !.clock = now,
                   !.disk.keys =
                     writeFileIfChanged(@, Text(renderRootQueryKeys(sync.namespaces)), now)]

\* await this.writeFileIfChanged(<root>/index.ts, nxQueryContent); the pass
\* ends and, within the bound, the next one is called
syncWriteIndex ==
  /\ sync.pc = "writeIndex"
  /\ LET now == sync.clock + 1
         index == writeFileIfChanged(sync.disk.index,
                                     Text(renderNXQueryFile(sync.namespaces)), now)
     IN sync' = [sync EXCEPT
                   !.pc = IF sync.run + 1 < MaxRuns THEN "ensure" ELSE "idle",
                   !.clock = now,
                   !.run = @ + 1,
                   !.disk.index = index,
                   !.first = IF sync.run = 0
                               THEN [sync.disk EXCEPT !.index = index] ELSE @]

SyncFrame == UNCHANGED <<schedVars, watch, seed, alias, moreVars>>

NextSync ==
  \/ syncEnsure /\ SyncFrame
  \/ syncRead /\ SyncFrame
  \/ \E n \in NsNames : syncWriteNamespace(n) /\ SyncFrame
  \/ syncWriteRoot /\ SyncFrame
  \/ syncWriteIndex /\ SyncFrame

SpecSync ==
  InitSync /\ [][NextSync]_vars

\* C6: once syncProject has run on a tree, a further run on the same tree
\* leaves the content and the modification time of every generated artifact
\* as the first run left them.
C6_PassIdempotence ==
  (sync.pc # "off" /\ sync.run >= 1) => sync.disk = sync.first

\* the second pass over two namespaces with operation files has ended, the
\* first pass having written index.ts
C6_Witness ==
  /\ sync.pc # "off" /\ sync.run >= 2
  /\ sync.dirs = NsNames /\ Cardinality(sync.files) >= 3
  /\ sync.first.index.mtime > 0
  /\ sync.disk = sync.first

(***************************************************************************)
(* What a completed pass has left on disk, read against the tree           *)
(***************************************************************************)
PassDone == sync.pc # "off" /\ sync.run >= 1

\* the file <namespace>/<folder>/<name>.ts exists and yields a descriptor
Yields(namespace, folder, name) ==
  /\ [namespace |-> namespace, folder |-> folder, name |-> name] \in sync.files
  /\ sourceOf(folder, name).parses
  /\ sourceOf(folder, name).functions # <<>>

\* the alias the manifest is to bind the factory of the file to
ExpectedAlias(namespace, kind, name) ==
  buildAlias(namespace,
             findOperationFactory(sourceOf(folderOfKind(kind), name).functions).name,
             kind, name)

KeyTableBody(namespace) == sync.disk.ns[namespace].content[2].body
ManifestBody == sync.disk.index.content[2].body

\* the lines between the line that opens the entry of key and its closing line
EntryLines(body, key) ==
  LET opens == {i \in DOMAIN body : "open" \in DOMAIN body[i] /\ body[i].open = key}
  IN IF opens = {} THEN <<>>
     ELSE LET i == CHOOSE k \in opens : TRUE
              closes == {j \in DOMAIN body : j > i /\ "close" \in DOMAIN body[j]}
              j == CHOOSE k \in closes : \A l \in closes : k <= l
          IN SubSeq(body, i + 1, j - 1)

\* the entries of the manifest for the operation name of the namespace
ManifestEntries(namespace, name) ==
  LET blocks == {i \in DOMAIN ManifestBody :
                   ManifestBody[i].property = formatPropertyKey(namespace)}
  IN UNION {{ManifestBody[i].operations[j] : j \in
               {k \in DOMAIN ManifestBody[i].operations :
                  ManifestBody[i].operations[k].property = formatPropertyKey(name)}} :
            i \in blocks}

MutationLine(namespace, name, withKind) ==
  [property |-> S_mutation,
   signature |-> <<>>,
   arrow |-> FALSE,
   keySegments |-> <<Quote(namespace), Quote(name)>>
                     \o (IF withKind THEN <<Quote(S_mutation)>> ELSE <<>>)]

\* C11: a name with a query and a mutation has both accessors under one
\* entry, each key with the literal third segment of its kind, and a
\* {query, mutation} pair in the manifest; a name with one kind has one
\* accessor without that segment and a single alias in the manifest; the
\* mutation accessor is a fixed tuple.
C11_MergeAndKindSegment ==
  PassDone =>
    \A n \in sync.dirs, name \in OpNames :
      LET q == Yields(n, S_queries, name)
          m == Yields(n, S_mutations, name)
          lines == EntryLines(KeyTableBody(n), formatPropertyKey(name))
          entries == ManifestEntries(n, name)
      IN /\ (q /\ m) =>
              /\ Len(lines) = 2
              /\ lines[1].property = S_query /\ lines[1].arrow
              /\ SubSeq(lines[1].keySegments, 1, 3)
                   = <<Quote(n), Quote(name), Quote(S_query)>>
              /\ lines[2] = MutationLine(n, name, TRUE)
              /\ entries = {[property |-> formatPropertyKey(name),
                             query |-> ExpectedAlias(n, "query", name),
                             mutation |-> ExpectedAlias(n, "mutation", name)]}
         /\ (q /\ ~m) =>
              /\ Len(lines) = 1
              /\ lines[1].property = S_query /\ lines[1].arrow
              /\ SubSeq(lines[1].keySegments, 1, 2) = <<Quote(n), Quote(name)>>
              /\ \A i \in DOMAIN lines[1].keySegments :
                   lines[1].keySegments[i] \notin {Quote(S_query), Quote(S_mutation)}
              /\ entries = {[property |-> formatPropertyKey(name),
                             value |-> ExpectedAlias(n, "query", name)]}
         /\ (~q /\ m) =>
              /\ lines = <<MutationLine(n, name, FALSE)>>
              /\ entries = {[property |-> formatPropertyKey(name),
                             value |-> ExpectedAlias(n, "mutation", name)]}
         /\ (~q /\ ~m) => lines = <<>> /\ entries = {}

\* a pass has ended on a namespace that holds a name with both kinds and a
\* name with a query only
C11_Witness ==
  /\ PassDone
  /\ \E n \in sync.dirs :
       /\ Yields(n, S_queries, <<"x">>) /\ Yields(n, S_mutations, <<"x">>)
       /\ Yields(n, S_queries, <<"y">>) /\ ~Yields(n, S_mutations, <<"y">>)
       /\ Len(EntryLines(KeyTableBody(n), <<"x">>)) = 2

\* the kinds that have an accessor under the entry of the name, and the
\* aliases the manifest binds the name to
AccessorKinds(namespace, name) ==
  LET lines == EntryLines(KeyTableBody(namespace), formatPropertyKey(name))
  IN {lines[i].property : i \in DOMAIN lines}
ManifestAliases(namespace, name) ==
  UNION {IF "value" \in DOMAIN e THEN {e.value} ELSE {e.query, e.mutation} :
         e \in ManifestEntries(namespace, name)}
KindName(kind) == IF kind = "query" THEN S_query ELSE S_mutation

\* C13: a file that does not parse contributes no accessor and no alias, and
\* every file of the tree that yields a descriptor has its accessor in the
\* key table and its alias in the manifest when the pass has ended.
C13_ParseErrorResilience ==
  PassDone =>
    \A n \in sync.dirs, name \in OpNames, kind \in OperationKinds :
      LET file == [namespace |-> n, folder |-> folderOfKind(kind), name |-> name]
      IN /\ Yields(n, folderOfKind(kind), name) =>
              /\ KindName(kind) \in AccessorKinds(n, name)
              /\ ExpectedAlias(n, kind, name) \in ManifestAliases(n, name)
         /\ (file \in sync.files /\ ~sourceOf(file.folder, name).parses) =>
              KindName(kind) \notin AccessorKinds(n, name)

\* a pass has ended on a namespace that holds a file that does not parse
\* next to files that do
C13_Witness ==
  /\ PassDone
  /\ \E n \in sync.dirs :
       /\ [namespace |-> n, folder |-> S_mutations, name |-> <<"y">>] \in sync.files
       /\ Yields(n, S_queries, <<"y">>) /\ Yields(n, S_mutations, <<"x">>)
       /\ AccessorKinds(n, <<"y">>) = {S_query}
       /\ AccessorKinds(n, <<"x">>) = {S_mutation}

(***************************************************************************)
(* One pass over a tree whose names go beyond identifiers, read under an   *)
(* order in which readdir lists the names.                                 *)
(***************************************************************************)
RenderNames == {<<"z">>, <<"U00E9">>, <<"e", "U0301">>}
RenderFiles == [namespace : RenderNames, folder : Folders, name : RenderNames]

\* what readdir returns for a directory that holds the names present, and
\* the listing of the operation files of each namespace directory
listingOf(order, present, suffix) ==
  LET Present(name) == name \in present
      kept == SelectSeq(order, Present)
  IN [i \in DOMAIN kept |-> kept[i] \o suffix]
listingsOf(order, dirs, files) ==
  [n \in dirs |->
     [folder \in Folders |->
        listingOf(order,
                  {f.name : f \in {g \in files : g.namespace = n /\ g.folder = folder}},
                  S_ts)]]

\* syncProject from collectNamespaces on: the snapshot and the three texts
snapshotOf(order, dirs, files) ==
  collectNamespaces(listingOf(order, dirs, <<>>), listingsOf(order, dirs, files))
artifactsOf(namespaces) ==
  [keyTables |-> [i \in DOMAIN namespaces |->
                    [namespace |-> namespaces[i].name,
                     text |-> renderNamespaceQueryKeys(namespaces[i])]],
   rootKeys |-> renderRootQueryKeys(namespaces),
   manifest |-> renderNXQueryFile(namespaces)]

InitRender ==
  /\ SchedOff /\ watch = WatchOff /\ seed = SeedOff /\ alias = AliasOff /\ sync = SyncOff
  /\ skel = SkelOff /\ feed = FeedOff /\ LastOff
  /\ \E dirs \in SUBSET RenderNames, order \in Perms(RenderNames) :
       \E files \in {fs \in SUBSET {f \in RenderFiles : f.namespace \in dirs} :
                       Cardinality(fs) <= MaxFiles} :
         render = [pc |-> "start", dirs |-> dirs, files |-> files, order |-> order,
                   namespaces |-> <<>>, out |-> artifactsOf(<<>>)]

renderPass ==
  /\ render.pc = "start"
  /\ LET namespaces == snapshotOf(render.order, render.dirs, render.files)
     IN render' = [render EXCEPT !.pc = "done",
                                 !.namespaces = namespaces,
                                 !.out = artifactsOf(namespaces)]

NextRender ==
  renderPass /\ UNCHANGED <<schedVars, watch, seed, alias, sync, skel, feed, lastVars>>

SpecRender ==
  InitRender /\ [][NextRender]_vars

\* one order of enumeration, to compare the others with
ReferenceOrder == CHOOSE order \in Perms(RenderNames) : TRUE

\* no element of the sequence comes before an earlier one in the order of
\* localeCompare
Ascending(names) ==
  \A i, j \in DOMAIN names : i < j => ~localeCompareLess(names[j], names[i])

\* C12: whatever the order in which readdir lists namespaces and files,
\* namespaces and the operations of each are rendered in ascending order of
\* name and the three artifact texts are those of any other order.
C12_EnumerationOrder ==
  render.pc = "done" =>
    /\ Ascending([i \in DOMAIN render.namespaces |-> render.namespaces[i].name])
    /\ \A i \in DOMAIN render.namespaces :
         Ascending([j \in DOMAIN render.namespaces[i].operations |->
                      render.namespaces[i].operations[j].key])
    /\ render.out = artifactsOf(snapshotOf(ReferenceOrder, render.dirs, render.files))

(***************************************************************************)
(* FileSystemWriter.ensureNamespaceSkeleton, for one directory path, called *)
(* for an addDir notification or by ensureBaseStructure.                   *)
(***************************************************************************)
SkelSegs == {"r", "ns", "queries", ".git", "node_modules"}

\* name.startsWith('.') and rel.startsWith('..'), of the names of the model
startsWithDot(name) == name \in {".git", ".."}
startsWithDotDot(rel) == rel # <<>> /\ rel[1] = ".."

\* what a call creates: the directories made by mkdir and the content of
\* queryKeys.ts, given the content it had
SkeletonOf(keyFile) ==
  [made |-> {"namespace", "queries", "mutations"}, keyFile |-> ensureFile(keyFile)]
NoSkeleton(keyFile) == [made |-> {}, keyFile |-> keyFile]

\* the check on the depth of the path left out
ensureNamespaceSkeletonAnyDepth(namespacePath, keyFile) ==
  LET rel == relative(resolvedDir, namespacePath)
  IN IF rel = <<>> \/ startsWithDotDot(rel) THEN NoSkeleton(keyFile)
     ELSE IF startsWithDot(namespacePath[Len(namespacePath)]) THEN NoSkeleton(keyFile)
     ELSE IF namespacePath[Len(namespacePath)] = "node_modules" THEN NoSkeleton(keyFile)
     ELSE SkeletonOf(keyFile)

ensureNamespaceSkeleton(namespacePath, keyFile) ==
  LET rel == relative(resolvedDir, namespacePath)
      namespaceName == namespacePath[Len(namespacePath)]
  IN IF rel = <<>> \/ startsWithDotDot(rel) THEN NoSkeleton(keyFile)
     ELSE IF Len(split(rel)) # 1 THEN NoSkeleton(keyFile)
     ELSE IF startsWithDot(namespaceName) THEN NoSkeleton(keyFile)
     ELSE IF namespaceName = "node_modules" THEN NoSkeleton(keyFile)
     ELSE SkeletonOf(keyFile)

InitSkel ==
  /\ SchedOff /\ watch = WatchOff /\ seed = SeedOff /\ alias = AliasOff /\ sync = SyncOff
  /\ render = RenderOff /\ feed = FeedOff /\ LastOff
  /\ \E path \in PathsOver(SkelSegs), keyFile \in {Absent, Stub, Table(<<>>)} :
       skel = [pc |-> "start", path |-> path, keyFile |-> keyFile, before |-> keyFile,
               made |-> {}, via |-> "none"]

\* FileWatcher handleAddDir, then NXQueryPlugin.handleDirectoryAdded up to
\* its await
skelAddDir ==
  /\ skel.pc = "start"
  /\ LET out == IF isInDir(skel.path)
                  THEN ensureNamespaceSkeleton(skel.path, skel.keyFile)
                  ELSE NoSkeleton(skel.keyFile)
     IN skel' = [skel EXCEPT !.pc = "done", !.via = "addDir",
                             !.made = out.made, !.keyFile = out.keyFile]

\* ensureBaseStructure: the loop over the entries of the root, for the entry
\* of the path if the path is one
skelInitialize ==
  /\ skel.pc = "start"
  /\ LET isEntry == Len(skel.path) = Len(resolvedDir) + 1 /\ IsPrefix(resolvedDir, skel.path)
         name == skel.path[Len(skel.path)]
         out == IF isEntry /\ ~startsWithDot(name) /\ name # "node_modules"
                  THEN ensureNamespaceSkeleton(join(resolvedDir, <<name>>), skel.keyFile)
                  ELSE NoSkeleton(skel.keyFile)
     IN skel' = [skel EXCEPT !.pc = "done", !.via = "initialize",
                             !.made = out.made, !.keyFile = out.keyFile]

SkelFrame == UNCHANGED <<schedVars, watch, seed, alias, sync, render, feed, lastVars>>

NextSkel ==
  \/ skelAddDir /\ SkelFrame
  \/ skelInitialize /\ SkelFrame

SpecSkel ==
  InitSkel /\ [][NextSkel]_vars

\* an immediate child of the root, neither hidden nor node_modules
NamespaceDirectory(path) ==
  /\ Len(path) = Len(resolvedDir) + 1 /\ IsPrefix(resolvedDir, path)
  /\ path[Len(path)] \notin {".git", "node_modules"}

\* C14: the skeleton is made exactly for the immediate children of the root
\* that are neither hidden nor node_modules, and making it never changes a
\* queryKeys.ts that exists.
C14_SkeletonScope ==
  skel.pc = "done" =>
    /\ NamespaceDirectory(skel.path) =>
         /\ skel.made = {"namespace", "queries", "mutations"}
         /\ skel.keyFile = (IF skel.before = Absent THEN Stub ELSE skel.before)
    /\ ~NamespaceDirectory(skel.path) =>
         skel.made = {} /\ skel.keyFile = skel.before

\* an addDir for a namespace directory whose key table exists left the table
\* as it was, and made the folders
C14_Witness ==
  /\ skel.pc = "done" /\ skel.via = "addDir"
  /\ skel.path = <<"r", "ns">> /\ skel.before = Table(<<>>)
  /\ skel.keyFile = skel.before /\ "queries" \in skel.made

(***************************************************************************)
(* Property keys of the three artifacts, in the passes of SpecRender.      *)
(***************************************************************************)
\* the pattern /^[A-Za-z_$][\w$]*$/ over the names of the trees
IdentifierNames == {<<"z">>}
ExpectedKey(name) ==
  IF name \in IdentifierNames THEN name ELSE <<"[", "\"">> \o name \o <<"\"", "]">>

\* the keys that open an entry of a key table
OpenKeys(body) == {body[k].open : k \in {l \in DOMAIN body : "open" \in DOMAIN body[l]}}

\* C15: in the key table of a namespace, the root key table and the manifest,
\* the property key of a namespace or operation is the bare name if the name
\* is an identifier and the bracket form of the name otherwise.
C15_PropertyKeys ==
  render.pc = "done" =>
    /\ {render.namespaces[i].name : i \in DOMAIN render.namespaces} = render.dirs
    /\ \A i \in DOMAIN render.namespaces :
         LET ns == render.namespaces[i]
             entry == render.out.manifest.body[i]
         IN /\ render.out.rootKeys.body[i].property = ExpectedKey(ns.name)
            /\ entry.property = ExpectedKey(ns.name)
            /\ \A j \in DOMAIN ns.operations :
                 entry.operations[j].property = ExpectedKey(ns.operations[j].key)
            /\ OpenKeys(render.out.keyTables[i].text.body)
                 = {ExpectedKey(ns.operations[j].key) : j \in DOMAIN ns.operations}
            /\ {ns.operations[j].key : j \in DOMAIN ns.operations}
                 = {f.name : f \in {g \in render.files : g.namespace = ns.name}}

\* a namespace whose name is no identifier holds an operation whose name is
\* one and an operation whose name is none
C15_Witness ==
  /\ render.pc = "done"
  /\ render.files = {[namespace |-> <<"U00E9">>, folder |-> S_queries, name |-> <<"z">>],
                     [namespace |-> <<"U00E9">>, folder |-> S_mutations, name |-> <<"U00E9">>]}
  /\ \E i \in DOMAIN render.namespaces :
       /\ render.out.manifest.body[i].property = <<"[", "\"", "U00E9", "\"", "]">>
       /\ OpenKeys(render.out.keyTables[i].text.body)
            = {<<"z">>, <<"[", "\"", "U00E9", "\"", "]">>}

(***************************************************************************)
(* Import lines of a namespace key table, in the passes of SpecSync.       *)
(***************************************************************************)
\* the operation files of the namespace that yield a descriptor and declare
\* a type whose name ends with Args
ArgsFiles(namespace) ==
  {f \in sync.files :
     /\ f.namespace = namespace
     /\ Yields(namespace, f.folder, f.name)
     /\ \E i \in DOMAIN sourceOf(f.folder, f.name).types :
          endsWith(sourceOf(f.folder, f.name).types[i], S_Args)}

\* the path from queryKeys.ts to the file, without its extension
ExpectedImportPath(f) == <<".", "/">> \o f.folder \o <<"/">> \o f.name

KeyTableImports(namespace) == sync.disk.ns[namespace].content[2].imports

\* C16: a namespace key table has one import line for each import path of
\* an operation file that exports an Args type, a line names each of its
\* types once in ascending order, the lines ascend by path, and a type name
\* exported under two paths is imported by two lines.
C16_ImportDedup ==
  PassDone =>
    \A n \in sync.dirs :
      LET lines == KeyTableImports(n)
      IN /\ {lines[i].from : i \in DOMAIN lines} = {ExpectedImportPath(f) : f \in ArgsFiles(n)}
         /\ Len(lines) = Cardinality({ExpectedImportPath(f) : f \in ArgsFiles(n)})
         /\ \A i, j \in DOMAIN lines :
              i < j => localeCompareLess(lines[i].from, lines[j].from)
         /\ \A i \in DOMAIN lines :
              /\ Range(lines[i].importType)
                   = {findArgsTypeName(sourceOf(f.folder, f.name).types) :
                        f \in {g \in ArgsFiles(n) : ExpectedImportPath(g) = lines[i].from}}
              /\ \A k, l \in DOMAIN lines[i].importType :
                   k < l => codeUnitLess(lines[i].importType[k], lines[i].importType[l])

\* a query file and a mutation file of one namespace both export Args: the
\* key table imports it by two lines, the mutation file's first
C16_Witness ==
  /\ PassDone
  /\ \E n \in sync.dirs :
       /\ Cardinality(ArgsFiles(n)) = 2
       /\ Len(KeyTableImports(n)) = 2
       /\ KeyTableImports(n)[1] = [importType |-> <<S_Args>>,
                                   from |-> <<".", "/">> \o S_mutations \o <<"/", "x">>]
       /\ KeyTableImports(n)[2].importType = <<S_Args>>

(***************************************************************************)
(* Passes of the scheduler model, on and off syncChain.                    *)
(***************************************************************************)
\* the pass is inside syncProject: past initialize's own ensureBaseStructure
\* and not yet settled
InSyncProject(p) == passes[p].pc \in ActivePcs \ {"initEnsure"}

\* C17: at no time are two executions of syncProject in progress, the one
\* that initialize runs included.
C17_AllPassesSerialized == Cardinality({p \in PassIds : InSyncProject(p)}) <= 1

\* the pass has written the artifact that a pass writes in the step it takes
\* from pc
HasWritten(q, pc) ==
  CASE pc = "writeNs" -> passes[q].pc \in {"writeRoot", "writeIndex", "done"}
    [] pc = "writeRoot" -> passes[q].pc \in {"writeIndex", "done"}
    [] pc = "writeIndex" -> passes[q].pc = "done"
    [] OTHER -> FALSE

\* C18: no pass writes an artifact that a pass started after it has written
\* already.
C18_NoStaleOverwrite ==
  [][\A p \in PassIds :
       passes'[p].pc # passes[p].pc /\ passes'[p].pc # "failed" =>
         \A q \in PassIds : q > p => ~HasWritten(q, passes[p].pc)]_vars

(***************************************************************************)
(* The plugin with the watcher that reports what the plugin itself creates *)
(* and writes: one namespace directory r/ns, one operation file            *)
(* r/ns/queries/a.ts, passes begun by runSync.  Notifications in flight    *)
(* form a set: the watcher delivers them in any order and may deliver one  *)
(* twice.                                                                  *)
(***************************************************************************)
P_ns == <<"r", "ns">>
P_queries == <<"r", "ns", "queries">>
P_mutations == <<"r", "ns", "mutations">>
P_keyFile == <<"r", "ns", "queryKeys.ts">>
P_op == <<"r", "ns", "queries", "a.ts">>
P_keys == <<"r", "keys.ts">>
P_index == <<"r", "index.ts">>

Ev(kind, path) == [kind |-> kind, path |-> path]

\* the artifacts rendered from a snapshot: is there the namespace, and does
\* its operation file yield a descriptor
FeedKeyTable(snap) == Table(IF snap.op THEN <<"a">> ELSE <<>>)
FeedRootKeys(ns) == Table(IF ns THEN <<"ns">> ELSE <<>>)
FeedManifest(snap) == Table(IF snap.ns THEN <<[name |-> "ns", op |-> snap.op]>> ELSE <<>>)

\* a directory made anew at every call
ensureDirectoryAnew(exists) == [exists |-> TRUE, created |-> TRUE]

\* fs.mkdir(target, { recursive: true }): nothing happens to a directory
\* that exists
ensureDirectory(exists) == [exists |-> TRUE, created |-> ~exists]

\* the notifications for a file written over the content existing
Written(existing, content, path) ==
  IF existing = content THEN {}
  ELSE {Ev(IF existing = Absent THEN "add" ELSE "change", path)}

\* ensureNamespaceSkeleton(path) on the tree of f
feedSkeleton(f, path) ==
  LET out == ensureNamespaceSkeleton(path, f.keyFile)
      namespaceDir == ensureDirectory(f.ns)
      folderDirs == ensureDirectory(f.folders)
  IN IF out.made = {} THEN f
     ELSE [f EXCEPT !.ns = namespaceDir.exists,
                    !.folders = folderDirs.exists,
                    !.keyFile = out.keyFile,
                    !.inflight = @ \cup (IF namespaceDir.created
                                          THEN {Ev("addDir", path)} ELSE {})
                                   \cup (IF folderDirs.created
                                          THEN {Ev("addDir", P_queries),
                                                Ev("addDir", P_mutations)}
                                          ELSE {})
                                   \cup Written(f.keyFile, out.keyFile, P_keyFile)]

\* maybeSeedOperationFile(path) on the tree of f
feedSeed(f, path) ==
  IF path = P_op /\ f.opFile = "empty"
    THEN [f EXCEPT !.opFile = "tpl", !.inflight = @ \cup {Ev("change", P_op)}]
    ELSE f

feedScheduleSync(f) ==
  IF f.syncPending THEN f ELSE [f EXCEPT !.syncPending = TRUE, !.link = TRUE]

\* the notification leaves the watcher, or stays to be delivered again
Taken(e, again) ==
  [feed EXCEPT !.inflight = IF again THEN @ ELSE @ \ {e},
               !.dups = IF again THEN @ + 1 ELSE @]
Deliverable(e, again) ==
  feed.pc = "on" /\ e \in feed.inflight /\ (again => feed.dups < MaxDups)

NoSnap == [ns |-> FALSE, op |-> FALSE]
InitFeed ==
  /\ SchedOff /\ watch = WatchOff /\ seed = SeedOff /\ alias = AliasOff /\ sync = SyncOff
  /\ render = RenderOff /\ skel = SkelOff /\ LastOff
  /\ feed = [pc |-> "on", ns |-> FALSE, folders |-> FALSE, keyFile |-> Absent,
             opFile |-> "absent", keys |-> FeedRootKeys(FALSE),
             index |-> FeedManifest(NoSnap), want |-> FALSE, inflight |-> {},
             edits |-> 0, dups |-> 0, syncPending |-> FALSE, link |-> FALSE,
             pass |-> [pc |-> "idle", snap |-> NoSnap]]

(* the user *)
feedUserMkdir ==
  /\ feed.pc = "on" /\ feed.edits < MaxEdits /\ ~feed.ns
  /\ feed' = [feed EXCEPT !.ns = TRUE, !.want = TRUE, !.edits = @ + 1,
                          !.inflight = @ \cup {Ev("addDir", P_ns)}]

feedUserRmdir ==
  /\ feed.pc = "on" /\ feed.edits < MaxEdits /\ feed.ns
  /\ feed' = [feed EXCEPT !.ns = FALSE, !.folders = FALSE, !.keyFile = Absent,
                          !.opFile = "absent", !.want = FALSE, !.edits = @ + 1,
                          !.inflight = @ \cup {Ev("unlinkDir", P_ns)}
                                         \cup (IF feed.opFile # "absent"
                                                 THEN {Ev("unlink", P_op)} ELSE {})]

feedUserAddsFile(c) ==
  /\ feed.pc = "on" /\ feed.edits < MaxEdits /\ feed.folders /\ feed.opFile = "absent"
  /\ feed' = [feed EXCEPT !.opFile = c, !.edits = @ + 1,
                          !.inflight = @ \cup {Ev("add", P_op)}]

(* FileWatcher handlers and the callbacks of attachDevServer *)
feedAdd(e, again) ==
  /\ Deliverable(e, again) /\ e.kind = "add"
  /\ feed' = IF shouldProcess(e.path)
               THEN feedScheduleSync(feedSeed(Taken(e, again), e.path))
               ELSE Taken(e, again)

feedChange(e, again) ==
  /\ Deliverable(e, again) /\ e.kind \in {"change", "unlink"}
  /\ feed' = IF shouldProcess(e.path)
               THEN feedScheduleSync(Taken(e, again))
               ELSE Taken(e, again)

feedAddDir(e, again) ==
  /\ Deliverable(e, again) /\ e.kind = "addDir"
  /\ feed' = IF isInDir(e.path)
               THEN feedScheduleSync(feedSkeleton(Taken(e, again), e.path))
               ELSE Taken(e, again)

feedUnlinkDir(e, again) ==
  /\ Deliverable(e, again) /\ e.kind = "unlinkDir"
  /\ feed' = IF isInDir(e.path)
               THEN feedScheduleSync(Taken(e, again))
               ELSE Taken(e, again)

(* runSync and syncProject *)
feedRunSync ==
  /\ feed.pc = "on" /\ feed.link /\ feed.pass.pc = "idle"
  /\ feed' = [feed EXCEPT !.link = FALSE, !.pass.pc = "ensure"]

\* ensureBaseStructure: the root files exist, then the skeleton of every
\* directory entry of the root
feedEnsure ==
  /\ feed.pc = "on" /\ feed.pass.pc = "ensure"
  /\ LET rooted == [feed EXCEPT !.index = ensureFile(@),
                                !.keys = ensureFile(@),
                                !.inflight = @ \cup Written(feed.index, ensureFile(feed.index), P_index)
                                               \cup Written(feed.keys, ensureFile(feed.keys), P_keys),
                                !.pass.pc = "read"]
     IN feed' = IF feed.ns THEN feedSkeleton(rooted, P_ns) ELSE rooted

\* collectNamespaces
feedRead ==
  /\ feed.pc = "on" /\ feed.pass.pc = "read"
  /\ feed' = [feed EXCEPT !.pass.pc = "writeNs",
                          !.pass.snap = [ns |-> feed.ns,
                                         op |-> feed.ns /\ feed.opFile \in {"tpl", "q0"}]]

\* writeFileIfChanged of the namespace key table: a file that cannot be read
\* has its directory made before it is written
feedWriteNs ==
  /\ feed.pc = "on" /\ feed.pass.pc = "writeNs"
  /\ LET content == FeedKeyTable(feed.pass.snap)
         parent == IF feed.keyFile = Absent THEN ensureDirectory(feed.ns)
                   ELSE [exists |-> feed.ns, created |-> FALSE]
     IN feed' = IF feed.pass.snap.ns
                  THEN [feed EXCEPT !.pass.pc = "writeRoot",
                                    !.ns = parent.exists,
                                    !.keyFile = content,
                                    !.inflight = @ \cup Written(feed.keyFile, content, P_keyFile)
                                                   \cup (IF parent.created
                                                           THEN {Ev("addDir", P_ns)} ELSE {})]
                  ELSE [feed EXCEPT !.pass.pc = "writeRoot"]

feedWriteRoot ==
  /\ feed.pc = "on" /\ feed.pass.pc = "writeRoot"
  /\ LET content == FeedRootKeys(feed.pass.snap.ns)
     IN feed' = [feed EXCEPT !.pass.pc = "writeIndex",
                             !.keys = content,
                             !.inflight = @ \cup Written(feed.keys, content, P_keys)]

\* the last write of syncProject, then the finally of runSync
feedWriteIndex ==
  /\ feed.pc = "on" /\ feed.pass.pc = "writeIndex"
  /\ LET content == FeedManifest(feed.pass.snap)
     IN feed' = [feed EXCEPT !.pass = [pc |-> "idle", snap |-> NoSnap],
                             !.index = content,
                             !.inflight = @ \cup Written(feed.index, content, P_index),
                             !.syncPending = FALSE]

FeedFrame == UNCHANGED <<schedVars, watch, seed, alias, sync, render, skel, lastVars>>

\* what the plugin and the watcher do, each notification delivered once
FeedSystem ==
  \/ \E e \in feed.inflight : feedAdd(e, FALSE) /\ FeedFrame
  \/ \E e \in feed.inflight : feedChange(e, FALSE) /\ FeedFrame
  \/ \E e \in feed.inflight : feedAddDir(e, FALSE) /\ FeedFrame
  \/ \E e \in feed.inflight : feedUnlinkDir(e, FALSE) /\ FeedFrame
  \/ feedRunSync /\ FeedFrame
  \/ feedEnsure /\ FeedFrame
  \/ feedRead /\ FeedFrame
  \/ feedWriteNs /\ FeedFrame
  \/ feedWriteRoot /\ FeedFrame
  \/ feedWriteIndex /\ FeedFrame

NextFeed ==
  \/ feedUserMkdir /\ FeedFrame
  \/ feedUserRmdir /\ FeedFrame
  \/ \E c \in {"empty", "q0"} : feedUserAddsFile(c) /\ FeedFrame
  \/ \E e \in feed.inflight, again \in BOOLEAN : feedAdd(e, again) /\ FeedFrame
  \/ \E e \in feed.inflight, again \in BOOLEAN : feedChange(e, again) /\ FeedFrame
  \/ \E e \in feed.inflight, again \in BOOLEAN : feedAddDir(e, again) /\ FeedFrame
  \/ \E e \in feed.inflight, again \in BOOLEAN : feedUnlinkDir(e, again) /\ FeedFrame
  \/ feedRunSync /\ FeedFrame
  \/ feedEnsure /\ FeedFrame
  \/ feedRead /\ FeedFrame
  \/ feedWriteNs /\ FeedFrame
  \/ feedWriteRoot /\ FeedFrame
  \/ feedWriteIndex /\ FeedFrame

SpecFeed ==
  InitFeed /\ [][NextFeed]_vars

\* the event loop runs every callback that is ready and the watcher delivers
\* every notification
SpecFeedFair ==
  InitFeed /\ [][NextFeed]_vars /\ WF_vars(FeedSystem)

FeedIdle == feed.pc = "on" /\ ~feed.syncPending /\ feed.pass.pc = "idle"
FeedQuiescent == FeedIdle /\ feed.inflight = {}

\* C19: once every notification is delivered and the scheduler is Idle, the
\* namespace directory is on disk iff the user's tree has it, and the root
\* key table and the manifest are those of the user's tree, in whatever
\* order and however often the notifications were delivered.
C19_DeliveryRobustness ==
  FeedQuiescent =>
    /\ feed.ns = feed.want
    /\ feed.keys = FeedRootKeys(feed.want)
    /\ (feed.index = FeedManifest(NoSnap)) = ~feed.want

\* C20: with every creation and write of the plugin reported back and the
\* user's changes at an end, the scheduler comes to stay Idle with nothing
\* left to deliver: only finitely many passes run.
C20_NoRegenerationLoop == <>[]FeedQuiescent

\* the plugin has made the skeleton, seeded the file and written the three
\* artifacts, every notification of these has been delivered, and the
\* scheduler is Idle
C20_Witness ==
  /\ FeedQuiescent
  /\ feed.folders /\ feed.opFile = "tpl"
  /\ feed.keyFile = FeedKeyTable([ns |-> TRUE, op |-> TRUE])
  /\ feed.index = FeedManifest([ns |-> TRUE, op |-> TRUE])

(***************************************************************************)
(* One notification delivered while the scheduler is Idle: the handler of  *)
(* FileWatcher, the callback of attachDevServer and, for add and addDir,   *)
(* the awaited file-system work before scheduleSync.  The file-system call *)
(* that writes (writeFile of the seed, mkdir of the skeleton) may throw.   *)
(***************************************************************************)
NotifySegs == {"r", "ns", "queries", "a.ts", "keys.ts"}
NotifyKinds == {"add", "change", "unlink", "addDir", "unlinkDir"}

\* the filter of the FileWatcher handler for the kind
Qualifies(kind, path) ==
  IF kind \in {"add", "change", "unlink"} THEN shouldProcess(path) ELSE isInDir(path)

InitNotify ==
  /\ SchedOff /\ watch = WatchOff /\ seed = SeedOff /\ alias = AliasOff /\ sync = SyncOff
  /\ render = RenderOff /\ skel = SkelOff /\ feed = FeedOff
  /\ wr = WrOff /\ parse = ParseOff /\ listen = ListenOff /\ tmpl = TmplOff
  /\ \E kind \in NotifyKinds, path \in PathsOver(NotifySegs), blank \in BOOLEAN,
        fault \in BOOLEAN :
       notify = [pc |-> "start", kind |-> kind, path |-> path,
                 content |-> IF blank THEN <<>> ELSE <<"x">>,
                 fault |-> fault, syncPending |-> FALSE, chainLinks |-> 0]

\* scheduleSync
notifyScheduleSync(n) ==
  IF n.syncPending THEN n
  ELSE [n EXCEPT !.syncPending = TRUE, !.chainLinks = @ + 1]

\* handleChange, handleUnlink, handleUnlinkDir: the callback is scheduleSync
notifySync ==
  /\ notify.pc = "start" /\ notify.kind \in {"change", "unlink", "unlinkDir"}
  /\ notify' = IF Qualifies(notify.kind, notify.path)
                 THEN [notifyScheduleSync(notify) EXCEPT !.pc = "done"]
                 ELSE [notify EXCEPT !.pc = "dropped"]

\* handleAdd, handleAddDir: the callback runs up to its await
notifyAwait ==
  /\ notify.pc = "start" /\ notify.kind \in {"add", "addDir"}
  /\ notify' = IF Qualifies(notify.kind, notify.path)
                 THEN [notify EXCEPT !.pc = "awaiting"]
                 ELSE [notify EXCEPT !.pc = "dropped"]

\* handleFileAdded: await maybeSeedOperationFile(file), then scheduleSync
notifySeeded ==
  /\ notify.pc = "awaiting" /\ notify.kind = "add"
  /\ LET seeded == maybeSeedOperationFile(notify.path, notify.path, TRUE, notify.content)
     IN notify' = IF seeded # notify.content /\ notify.fault
                    THEN [notify EXCEPT !.pc = "rejected"]
                    ELSE [notifyScheduleSync(notify) EXCEPT !.pc = "done",
                                                            !.content = seeded]

\* handleDirectoryAdded: await ensureNamespaceSkeleton(directory), then
\* scheduleSync
notifySkeleton ==
  /\ notify.pc = "awaiting" /\ notify.kind = "addDir"
  /\ notify' = IF ensureNamespaceSkeleton(notify.path, Absent).made # {} /\ notify.fault
                 THEN [notify EXCEPT !.pc = "rejected"]
                 ELSE [notifyScheduleSync(notify) EXCEPT !.pc = "done"]

NotifyFrame ==
  UNCHANGED <<schedVars, watch, seed, alias, sync, render, skel, feed,
              wr, parse, listen, tmpl>>

NextNotify ==
  \/ notifySync /\ NotifyFrame
  \/ notifyAwait /\ NotifyFrame
  \/ notifySeeded /\ NotifyFrame
  \/ notifySkeleton /\ NotifyFrame

SpecNotify ==
  InitNotify /\ [][NextNotify]_vars

\* C21: once the handler of a qualifying notification received while Idle
\* has ended, a pass is scheduled and exactly one link is enqueued, whether
\* or not the seeding or the skeleton creation succeeded.
C21_IdleTransition ==
  (notify.pc \in {"done", "rejected"} /\ Qualifies(notify.kind, notify.path))
    => notify.syncPending /\ notify.chainLinks = 1

(***************************************************************************)
(* Seeding and the pass that follows, in the behaviours of SpecFeed.       *)
(***************************************************************************)
\* C22: once the add notification of an empty operation file has been
\* handled (the file holds the template) and the scheduler is Idle with
\* nothing left to deliver, the key table and the manifest hold the seeded
\* operation, whatever the scheduler did when the notification arrived.
C22_SeedBeforePass ==
  (FeedQuiescent /\ feed.opFile = "tpl") =>
    /\ feed.keyFile = FeedKeyTable([ns |-> TRUE, op |-> TRUE])
    /\ feed.index = FeedManifest([ns |-> TRUE, op |-> TRUE])

(***************************************************************************)
(* The seeder's read, check and write, in the behaviours of the scheduler  *)
(* model, where the user may write the file between them.                  *)
(***************************************************************************)
\* C23: the write of the template never replaces content that holds a
\* non-whitespace character.
C23_SeedInterleaving ==
  [][(opFile' = "tpl" /\ opFile # "tpl") => opFile \in {"absent", "empty"}]_vars

(***************************************************************************)
(* What a pass writes, in the behaviours of the scheduler model.           *)
(***************************************************************************)
\* C24: no step of a pass or of initialize, ensureBaseStructure and the
\* skeleton included, changes the content of the operation file: a pass
\* writes index.ts, keys.ts and queryKeys.ts only.
C24_PassFrame ==
  [][passes' # passes => opFile' = opFile]_vars

\* a pass has run to its end over an operation file, written the three
\* artifacts from it and left it as the user wrote it
C24_Witness ==
  /\ opFile = "q1"
  /\ \E p \in PassIds : passes[p].pc = "done"
  /\ nsKeys = SnapNamespaceKeys("q1") /\ rootKeys = SnapRootKeys
  /\ manifest = SnapManifest("q1")

(***************************************************************************)
(* FileSystemWriter.writeFileIfChanged, called on one file whose parent    *)
(* directories may be missing.  The log holds the file-system calls made.  *)
(***************************************************************************)
\* the catch branch without its mkdir
writeCallNoMkdir(file, missing, content, now) ==
  [file |-> writeFileIfChanged(file, content, now),
   missing |-> missing,
   log |-> <<"readFile">>
             \o (IF file.content # content THEN <<"writeFile">> ELSE <<>>)]

\* readFile; on equal content return; on a failed read mkdir of the parent
\* directory, recursive; then writeFile
writeCall(file, missing, content, now) ==
  [file |-> writeFileIfChanged(file, content, now),
   missing |-> IF file.content = Absent THEN 0 ELSE missing,
   log |-> <<"readFile">>
             \o (IF file.content = Absent THEN <<"mkdir">> ELSE <<>>)
             \o (IF file.content # content THEN <<"writeFile">> ELSE <<>>)]

InitWr ==
  /\ SchedOff /\ watch = WatchOff /\ seed = SeedOff /\ alias = AliasOff /\ sync = SyncOff
  /\ render = RenderOff /\ skel = SkelOff /\ feed = FeedOff
  /\ notify = NotifyOff /\ parse = ParseOff /\ listen = ListenOff /\ tmpl = TmplOff
  /\ \E existing \in Contents \cup {Absent}, missing \in 0..MaxDepth :
       /\ (existing # Absent => missing = 0)
       /\ wr = [pc |-> "on", calls |-> 0, clock |-> 0,
                file |-> [content |-> existing, mtime |-> 0], missing |-> missing,
                content |-> <<>>, log |-> <<>>,
                prev |-> [content |-> existing, mtime |-> 0], prevMissing |-> missing]

wrCall(content) ==
  /\ wr.pc = "on" /\ wr.calls < MaxRuns
  /\ LET out == writeCall(wr.file, wr.missing, content, wr.clock + 1)
     IN wr' = [wr EXCEPT !.calls = @ + 1, !.clock = @ + 1,
                         !.file = out.file, !.missing = out.missing,
                         !.content = content, !.log = out.log,
                         !.prev = wr.file, !.prevMissing = wr.missing]

NextWr ==
  \E content \in Contents :
    wrCall(content)
      /\ UNCHANGED <<schedVars, watch, seed, alias, sync, render, skel, feed,
                     notify, parse, listen, tmpl>>

SpecWr ==
  InitWr /\ [][NextWr]_vars

\* C25: a call of writeFileIfChanged writes iff the file is absent or its
\* content differs; an absent file has its parent directories made before
\* the write; a file of equal content is left as it is, modification time
\* included; afterwards the file holds the content.
C25_WriteIfChanged ==
  wr.pc = "on" /\ wr.calls >= 1 =>
    LET changed == wr.prev.content # wr.content
    IN /\ ("writeFile" \in Range(wr.log)) = changed
       /\ changed => wr.file = [content |-> wr.content, mtime |-> wr.clock]
       /\ ~changed => wr.file = wr.prev /\ wr.log = <<"readFile">>
       /\ wr.prev.content = Absent =>
            wr.log = <<"readFile", "mkdir", "writeFile">> /\ wr.missing = 0
       /\ "writeFile" \in Range(wr.log) => wr.missing = 0
       /\ wr.file.content = wr.content

\* the first call wrote the file, the second call with the same content made
\* no file-system call but the read and left the file alone
C25_Witness ==
  /\ wr.pc = "on" /\ wr.calls = 2
  /\ wr.content = <<"x">> /\ wr.prev = [content |-> <<"x">>, mtime |-> 1]
  /\ wr.file = wr.prev /\ wr.missing = 0 /\ wr.log = <<"readFile">>

(***************************************************************************)
(* parseOperationFile on one file: what parseSync returns for it (a thrown *)
(* error, a list of syntax errors, or a program) and the top-level         *)
(* statements of the program, each with one declarator.                    *)
(***************************************************************************)
DeclNames == {S_createQueryOptions, S_createMutationOptions, S_fetch}
\* "arrow" and "function": a variable declaration initialised with an arrow
\* or function expression; "value": one initialised with another
\* expression; "declaration": a function declaration
DeclForms == {"arrow", "function", "value", "declaration"}
Decls == [exported : BOOLEAN, form : DeclForms, name : DeclNames]
Bodies == UNION {[1..n -> Decls] : n \in 0..MaxDecls}

\* the candidates of findOperationFactory, in the order of the program
RECURSIVE candidatesOf(_)
candidatesOf(body) ==
  IF body = <<>> THEN <<>>
  ELSE (IF Head(body).exported /\ Head(body).form \in {"arrow", "function"}
          THEN <<[name |-> Head(body).name, params |-> <<>>]>>
          ELSE <<>>)
         \o candidatesOf(Tail(body))

\* the calls of console.warn: one in the catch of parseSync, one for each
\* element of result.errors
parseWarnings(throws, errors) == IF throws THEN 1 ELSE errors

ParsedFile == rootPath \o <<<<"a">>, S_queries, <<"x">> \o S_ts>>

InitParse ==
  /\ SchedOff /\ watch = WatchOff /\ seed = SeedOff /\ alias = AliasOff /\ sync = SyncOff
  /\ render = RenderOff /\ skel = SkelOff /\ feed = FeedOff
  /\ notify = NotifyOff /\ wr = WrOff /\ listen = ListenOff /\ tmpl = TmplOff
  /\ \E body \in Bodies, throws \in BOOLEAN, errors \in 0..MaxErrors :
       /\ (throws => errors = 0)
       /\ (throws \/ errors > 0 => body = <<>>)
       /\ parse = [pc |-> "start", body |-> body, throws |-> throws, errors |-> errors,
                   warnings |-> 0, info |-> Null]

parseFile ==
  /\ parse.pc = "start"
  /\ parse' = [parse EXCEPT
       !.pc = "done",
       !.warnings = parseWarnings(parse.throws, parse.errors),
       !.info = parseOperationFile(<<"a">>, "query", ParsedFile,
                                   [parses |-> ~parse.throws /\ parse.errors = 0,
                                    functions |-> candidatesOf(parse.body),
                                    types |-> <<>>])]

NextParse ==
  parseFile
    /\ UNCHANGED <<schedVars, watch, seed, alias, sync, render, skel, feed,
                   notify, wr, listen, tmpl>>

SpecParse ==
  InitParse /\ [][NextParse]_vars

\* C26: a file that fails to parse causes exactly one warning, however many
\* syntax errors the parser reports, and a file that parses causes none,
\* whether or not it holds a qualifying export.
C26_DiagnosticCount ==
  parse.pc = "done" =>
    parse.warnings = (IF parse.throws \/ parse.errors > 0 THEN 1 ELSE 0)

\* the statements that are exported variable declarations initialised with
\* an arrow or function expression
Candidates(body) ==
  {i \in DOMAIN body : body[i].exported /\ body[i].form \in {"arrow", "function"}}
Canonical(body) ==
  {i \in Candidates(body) :
     body[i].name \in {S_createQueryOptions, S_createMutationOptions}}
First(indices) == CHOOSE i \in indices : \A j \in indices : i <= j

\* C27: the factory of the descriptor is the first candidate named
\* createQueryOptions or createMutationOptions if there is one, else the
\* first candidate; a file without candidate yields no descriptor.
C27_FactorySelection ==
  (parse.pc = "done" /\ ~parse.throws /\ parse.errors = 0) =>
    IF Candidates(parse.body) = {} THEN IsNull(parse.info)
    ELSE /\ ~IsNull(parse.info)
         /\ parse.info.factoryName =
              parse.body[IF Canonical(parse.body) # {}
                           THEN First(Canonical(parse.body))
                           ELSE First(Candidates(parse.body))].name

\* a file whose first candidate is fetch and whose second is
\* createMutationOptions: the second is taken
C27_Witness ==
  /\ parse.pc = "done"
  /\ parse.body = <<[exported |-> TRUE, form |-> "arrow", name |-> S_fetch],
                    [exported |-> TRUE, form |-> "function",
                     name |-> S_createMutationOptions]>>
  /\ ~IsNull(parse.info) /\ parse.info.factoryName = S_createMutationOptions

(***************************************************************************)
(* Listeners.  The plugin holds one FileWatcher in this.watcher and makes  *)
(* a new one in every initialize(); the handlers registered with the       *)
(* server's watcher belong to the instance that attachDevServer was called *)
(* on.  "user" is options.onChange, "cb" a callback given to plugin.on().  *)
(***************************************************************************)
WatcherIds == 1..MaxWatchers
NoWatcher == 0
NoCalls == [kind |-> "none", user |-> 0, cb |-> 0, listening |-> FALSE]

InitListen ==
  /\ SchedOff /\ watch = WatchOff /\ seed = SeedOff /\ alias = AliasOff /\ sync = SyncOff
  /\ render = RenderOff /\ skel = SkelOff /\ feed = FeedOff
  /\ notify = NotifyOff /\ wr = WrOff /\ parse = ParseOff /\ tmpl = TmplOff
  /\ listen = [pc |-> "on", made |-> 0, current |-> NoWatcher, bound |-> NoWatcher,
               subscribers |-> [w \in WatcherIds |-> <<>>],
               registered |-> FALSE, removed |-> FALSE, last |-> NoCalls]

\* new FileWatcher(dir, this.options.onChange), assigned to this.watcher
newWatcher(l) ==
  [l EXCEPT !.made = @ + 1, !.current = l.made + 1]

\* FileWatcher.emit: userOnChange, then every subscriber
emitCalls(subscribers) ==
  [user |-> 1 + Cardinality({i \in DOMAIN subscribers : subscribers[i] = "user"}),
   cb |-> Cardinality({i \in DOMAIN subscribers : subscribers[i] = "cb"})]

\* on(cb) has been called and off(cb) has not
Listening(l) == l.registered /\ ~l.removed

\* Array.indexOf and splice of FileWatcher.off
removeFirst(subscribers, callback) ==
  LET hits == {i \in DOMAIN subscribers : subscribers[i] = callback}
  IN IF hits = {} THEN subscribers
     ELSE LET index == CHOOSE i \in hits : \A j \in hits : i <= j
          IN SubSeq(subscribers, 1, index - 1)
               \o SubSeq(subscribers, index + 1, Len(subscribers))

\* initialize(), from buildStart: up to its first await
listenInitialize ==
  /\ listen.pc = "on" /\ listen.made < MaxWatchers
  /\ listen' = newWatcher(listen)

\* attachDevServer: a watcher if there is none, FileWatcher.attachDevServer
\* on it, then void this.initialize()
listenAttach ==
  /\ listen.pc = "on" /\ listen.bound = NoWatcher
  /\ listen.made + 2 <= MaxWatchers \/ (listen.current # NoWatcher /\ listen.made < MaxWatchers)
  /\ LET held == IF listen.current = NoWatcher THEN newWatcher(listen) ELSE listen
         served == [held EXCEPT !.bound = held.current,
                                !.subscribers[held.current] = Append(@, "user")]
     IN listen' = newWatcher(served)

\* NXQueryPlugin.on(cb): this.watcher?.on(cb)
listenOn ==
  /\ listen.pc = "on" /\ ~listen.registered
  /\ listen' = IF listen.current = NoWatcher
                 THEN [listen EXCEPT !.registered = TRUE]
                 ELSE [listen EXCEPT !.registered = TRUE,
                                     !.subscribers[listen.current] = Append(@, "cb")]

\* NXQueryPlugin.off(cb): this.watcher?.off(cb)
listenOff ==
  /\ listen.pc = "on" /\ listen.registered /\ ~listen.removed
  /\ listen' = IF listen.current = NoWatcher
                 THEN [listen EXCEPT !.removed = TRUE]
                 ELSE [listen EXCEPT !.removed = TRUE,
                                     !.subscribers[listen.current] = removeFirst(@, "cb")]

\* a qualifying change or unlink: handleChange / handleUnlink of the bound
\* instance emit
listenChange(kind) ==
  /\ listen.pc = "on" /\ listen.bound # NoWatcher
  /\ LET calls == emitCalls(listen.subscribers[listen.bound])
     IN listen' = [listen EXCEPT !.last = [kind |-> kind, user |-> calls.user,
                                           cb |-> calls.cb,
                                           listening |-> Listening(listen)]]

\* a qualifying add: handleAdd of the bound instance calls onAdd, and
\* handleFileAdded emits on this.watcher
listenAdd ==
  /\ listen.pc = "on" /\ listen.bound # NoWatcher
  /\ LET calls == emitCalls(listen.subscribers[listen.current])
     IN listen' = [listen EXCEPT !.last = [kind |-> "add", user |-> calls.user,
                                           cb |-> calls.cb,
                                           listening |-> Listening(listen)]]

ListenFrame ==
  UNCHANGED <<schedVars, watch, seed, alias, sync, render, skel, feed,
              notify, wr, parse, tmpl>>

NextListen ==
  \/ listenInitialize /\ ListenFrame
  \/ listenAttach /\ ListenFrame
  \/ listenOn /\ ListenFrame
  \/ listenOff /\ ListenFrame
  \/ \E kind \in {"change", "unlink"} : listenChange(kind) /\ ListenFrame
  \/ listenAdd /\ ListenFrame

SpecListen ==
  InitListen /\ [][NextListen]_vars

\* C28: for one notification, options.onChange is called at most once.
C28_NoDuplicateInvocation == listen.last.user <= 1

\* C29: a callback given to on() and not yet to off() is called for every
\* notification delivered, and after off() it is called for none.
C29_ListenerDelivery ==
  listen.last.kind # "none" =>
    IF listen.last.listening THEN listen.last.cb >= 1 ELSE listen.last.cb = 0

(***************************************************************************)
(* An empty operation file is seeded and then read by a pass.  The seeded  *)
(* file is kept as the parts of the template that vary with its names.     *)
(***************************************************************************)
S_Return == <<"R", "e", "t", "u", "r", "n">>
S_queryKeys == <<"q", "u", "e", "r", "y">> \o <<"K", "e", "y", "s">>

\* directory and file names: identifiers, names led by a digit, names with
\* a hyphen
TmplChars == {"a", "1", "-"}
TmplNames == UNION {[1..k -> TmplChars] : k \in 1..MaxNameLen}

\* JSON.stringify of a string that needs no escape, in brackets
buildPropertyAccessor(objectName, key) ==
  IF isValidIdentifier(key)
    THEN objectName \o <<".">> \o key
    ELSE objectName \o <<"[", "\"">> \o key \o <<"\"", "]">>

\* the two exported types, the exported factory, the key the factory reads
buildQueryTemplate(namespace, fileName) ==
  LET namespacePascal == toPascalCase(namespace)
      filePascal == toPascalCase(fileName)
  IN [types |-> <<namespacePascal \o filePascal \o S_Args,
                  namespacePascal \o filePascal \o S_Return>>,
      functions |-> <<[name |-> S_createQueryOptions,
                       params |-> <<[type |-> "Identifier", name |-> S_rawArgs]>>]>>,
      accessor |-> buildPropertyAccessor(S_queryKeys, fileName) \o <<".">> \o S_query]

buildMutationTemplate(namespace, fileName) ==
  LET namespacePascal == toPascalCase(namespace)
      filePascal == toPascalCase(fileName)
  IN [types |-> <<namespacePascal \o filePascal \o S_Args,
                  namespacePascal \o filePascal \o S_Return>>,
      functions |-> <<[name |-> S_createMutationOptions, params |-> <<>>]>>,
      accessor |-> buildPropertyAccessor(S_queryKeys, fileName) \o <<".">> \o S_mutation]

\* parseSync of a seeded file: `export type <name> = ...` is a syntax error
\* unless <name> is an identifier; everything else of the template parses
parseSeeded(content) ==
  [parses |-> \A i \in DOMAIN content.types : isValidIdentifier(content.types[i]),
   functions |-> content.functions,
   types |-> content.types]

InitTmpl ==
  /\ SchedOff /\ watch = WatchOff /\ seed = SeedOff /\ alias = AliasOff /\ sync = SyncOff
  /\ render = RenderOff /\ skel = SkelOff /\ feed = FeedOff
  /\ notify = NotifyOff /\ wr = WrOff /\ parse = ParseOff /\ listen = ListenOff
  /\ \E namespace \in TmplNames, name \in TmplNames, kind \in {"query", "mutation"} :
       tmpl = [pc |-> "empty", namespace |-> namespace, name |-> name, kind |-> kind,
               content |-> <<>>, keyTable |-> <<>>, index |-> <<>>]

\* maybeSeedOperationFile of <namespace>/<queries|mutations>/<name>.ts, which
\* is empty
tmplSeed ==
  /\ tmpl.pc = "empty"
  /\ tmpl' = [tmpl EXCEPT
       !.pc = "seeded",
       !.content = IF tmpl.kind = "query"
                     THEN buildQueryTemplate(tmpl.namespace, tmpl.name)
                     ELSE buildMutationTemplate(tmpl.namespace, tmpl.name)]

\* syncProject over the tree that holds this one file
tmplSync ==
  /\ tmpl.pc = "seeded"
  /\ LET namespacePath == rootPath \o <<tmpl.namespace>>
         filePath == namespacePath \o <<folderOfKind(tmpl.kind), tmpl.name \o S_ts>>
         info == parseOperationFile(tmpl.namespace, tmpl.kind, filePath,
                                    parseSeeded(tmpl.content))
         operations == IF IsNull(info) THEN <<>>
                       ELSE mapSet(<<>>, info.name, tmpl.kind, info)
         namespace == [key |-> tmpl.namespace,
                       name |-> tmpl.namespace,
                       absolutePath |-> namespacePath,
                       operations |-> operations]
     IN tmpl' = [tmpl EXCEPT
          !.pc = "synced",
          !.keyTable = renderNamespaceQueryKeys(namespace),
          !.index = renderNXQueryFile(<<namespace>>)]

TmplFrame ==
  UNCHANGED <<schedVars, watch, seed, alias, sync, render, skel, feed,
              notify, wr, parse, listen>>

NextTmpl ==
  \/ tmplSeed /\ TmplFrame
  \/ tmplSync /\ TmplFrame

SpecTmpl ==
  InitTmpl /\ [][NextTmpl]_vars

\* the accessor is the path to a property of the key table: the entry of a
\* name, in dot or in bracket form, and in it the property of a kind
Resolves(accessor, body) ==
  \E i \in DOMAIN body :
    /\ "open" \in DOMAIN body[i]
    /\ i + 1 \in DOMAIN body
    /\ "property" \in DOMAIN body[i + 1]
    /\ accessor = S_queryKeys
                    \o (IF Head(body[i].open) = "[" THEN body[i].open
                        ELSE <<".">> \o body[i].open)
                    \o <<".">> \o body[i + 1].property

\* create<Namespace><Name>QueryOptions, create<Namespace><Name>MutationOptions
SeededAlias ==
  S_create \o toPascalCase(tmpl.namespace) \o toPascalCase(tmpl.name)
    \o (IF tmpl.kind = "query" THEN S_QueryOptions ELSE S_MutationOptions)

\* C30: once an empty operation file was seeded and a pass completed, the
\* accessor the seeded file reads (queryKeys.<name>.query or .mutation, in
\* bracket form for a name that is no identifier) is a property of the
\* namespace's key table, and the manifest lists the operation under the
\* alias create<Namespace><Name>QueryOptions resp. ...MutationOptions,
\* whatever the names of the namespace and of the file.
C30_SeedKeyTableAgreement ==
  tmpl.pc = "synced" =>
    /\ Resolves(tmpl.content.accessor, tmpl.keyTable.body)
    /\ \E i \in DOMAIN tmpl.index.body[1].operations :
         tmpl.index.body[1].operations[i] =
           [property |-> formatPropertyKey(tmpl.name), value |-> SeededAlias]

====
